---------------------------- MODULE Spec2Model ----------------------------
(***************************************************************************)
(* Signal orchestration and consensus aggregation of thalas_trader:        *)
(*   backend/llm_service/consensus/aggregator.py      SignalAggregator     *)
(*   backend/llm_service/multi_provider_orchestrator.py                    *)
(*                                          MultiProviderOrchestrator      *)
(*   backend/llm_service/providers/registry.py        ProviderRegistry     *)
(*   backend/llm_service/providers/base.py            BaseLLMProvider      *)
(*   backend/llm_service/providers/anthropic_provider.py, openai_provider.py,*)
(*   gemini_provider.py, grok_provider.py             generate_signal      *)
(*                                                                         *)
(* Numbers.  Confidences and weights are floats in [0,1] in the program;   *)
(* here a weight is an integer counting tenths (0..10) and a confidence    *)
(* an integer counting hundredths (0..100).  A product                     *)
(* weight * confidence therefore counts thousandths.  Quotients are exact  *)
(* rationals <<numerator, denominator>> in lowest terms.  Floating-point   *)
(* rounding is not modelled.                                               *)
(* Optional values (None in the program) are sequences of length at most   *)
(* one: <<>> is None and <<v>> is the value v.                             *)
(* Latency, cost, token and timestamp fields are not modelled; the request *)
(* and error counters are those of the handle whose generate_signal call   *)
(* is followed attempt by attempt.                                         *)
(***************************************************************************)
EXTENDS Integers, Sequences, FiniteSets, TLC

VARIABLES
    \* SignalAggregator.aggregate / generate_consensus_signal locals
    responses,   \* the list of ProviderResponse handed to the aggregator
    weights,     \* the weight map handed to the aggregator (name -> tenths)
    consensus,   \* <<>> before the call ends, then <<what it returned/raised>>
    \* ProviderRegistry / BaseLLMProvider
    providers,   \* self._providers: the registered names, insertion order
    enabled,     \* handle -> config.enabled
    status,      \* handle -> ProviderStatus value
    \* ProviderRegistry.health_check_all
    hc_pc,       \* "idle", "loop" while the for-loop over the handles runs,
                 \* "raised" after an exception left health_check_all
    hc_queue,    \* the handles the loop has still to probe
    hc_results,  \* the results dict built so far
    hc_pending,  \* the handles whose health_check is awaited right now
    hc_iter,     \* the iterator of the loop over self._providers.items()
    \* one adapter generate_signal call seen from inside
    handle,      \* the handle whose generate_signal runs
    max_retries, \* its config.max_retries
    gpc,         \* "idle", "attempt", "sleep" (backoff), "returned", "raised"
    attempt,     \* attempt (Anthropic) / retry_count (OpenAI)
    api_log,     \* the outcomes of the API attempts made so far, in order
    sleeps,      \* the number of backoff sleeps started so far
    call_result, \* <<>> while running, then <<what the call returned/raised>>
    metrics,     \* the handle's _request_count and _error_count
    completed,   \* how each generate_signal call made so far ended, in order
    \* MultiProviderOrchestrator
    min_providers,        \* self.min_providers
    total_requests,       \* self._total_requests
    successful_requests,  \* self._successful_requests
    failed_requests,      \* self._failed_requests
    \* one generate_consensus_signal call
    pc,                   \* "idle", "gather" (awaiting), "returned", "raised"
    provider_weights,     \* the provider_weights argument; <<>> is None
    available_providers,  \* the list get_available_providers() returned
    task,                 \* provider name -> state of its _call_provider_safe
    failures,             \* the failures dict of _call_providers_parallel
    aggregator_called     \* whether this call has invoked aggregator.aggregate

aggVars == <<responses, weights, consensus>>

registryVars == <<enabled, status>>

healthVars == <<hc_pc, hc_queue, hc_results, hc_pending, hc_iter>>

adapterVars == <<handle, max_retries, gpc, attempt, api_log, sleeps,
                 call_result, metrics, completed>>

orchVars == <<min_providers, total_requests, successful_requests,
              failed_requests>>

callVars == <<pc, provider_weights, available_providers, task, failures,
              aggregator_called>>

vars == <<responses, weights, consensus, providers, enabled, status, hc_pc,
          hc_queue, hc_results, hc_pending, hc_iter, handle, max_retries, gpc, attempt, api_log,
          sleeps, call_result, metrics, completed, min_providers, total_requests,
          successful_requests, failed_requests, pc, provider_weights,
          available_providers, task, failures, aggregator_called>>

----------------------------------------------------------------------------
(* Arithmetic helpers *)

RECURSIVE GCD(_, _)
GCD(a, b) == IF b = 0 THEN a ELSE GCD(b, a % b)

\* The rational n/d (d > 0, n >= 0) in lowest terms.
Rat(n, d) == LET g == GCD(n, d) IN <<n \div g, d \div g>>

RatLeq(x, y) == x[1] * y[2] <= y[1] * x[2]

RECURSIVE SumSeq(_)
SumSeq(s) == IF s = <<>> THEN 0 ELSE Head(s) + SumSeq(Tail(s))

\* [x for x in s if keep(x)], in the order of s.
FilterSeq(s, keep(_)) == SelectSeq(s, keep)

\* Python's max(s, key=key): the FIRST element of s whose key is maximal.
PyMaxIndex(s, key(_)) ==
    CHOOSE i \in 1..Len(s) :
        /\ \A j \in 1..Len(s) : key(s[j]) <= key(s[i])
        /\ \A j \in 1..(i - 1) : key(s[j]) < key(s[i])

----------------------------------------------------------------------------
(* Shared types: base.py ProviderResponse, ProviderStatus *)

Decisions == {"BUY", "SELL", "HOLD"}

\* dict insertion order of weighted_votes = {"BUY": 0.0, "SELL": 0.0, "HOLD": 0.0}
DecisionOrder == <<"BUY", "SELL", "HOLD">>

\* weights.get(response.provider_name, 1.0): 1.0 in tenths
DefaultWeight == 10

\* final_confidence = base_confidence * (0.7 + 0.3 * agreement_factor): the
\* factors 0.7 and 0.3 in tenths
BaseFactor == 7

AgreementBonus == 3

ProviderResponse(name, decision, confidence, reasoning, risk, sl, tp) ==
    [ provider_name |-> name,
      decision |-> decision,
      confidence |-> confidence,
      reasoning |-> reasoning,
      risk_level |-> risk,
      suggested_stop_loss |-> sl,
      suggested_take_profit |-> tp ]

\* The reasoning text of a provider's response: opaque, one per provider.
ReasoningOf(name) == <<"analysis by", name>>

\* Python truthiness of an Optional[float]: None and 0.0 are both falsy.
Truthy(opt) == opt # <<>> /\ opt[1] # 0

\* Python truthiness of an Optional[str]: None and "" are both falsy.
TruthyStr(opt) == opt # <<>> /\ opt[1] # ""

\* str.lower() on the risk-level strings that occur.
Lower(s) ==
    CASE s = "HIGH" -> "high"
      [] s = "MEDIUM" -> "medium"
      [] s = "LOW" -> "low"
      [] OTHER -> s

----------------------------------------------------------------------------
(* SignalAggregator *)

WeightOf(w, name) == IF name \in DOMAIN w THEN w[name] ELSE DefaultWeight

\* Mutated weighted votes: the provider weight alone, a confidence of 1.0
\* assumed for every response.
CalculateWeightedVotesIgnoringConfidence(resps, w) ==
    [ d \in Decisions |->
        SumSeq([ i \in 1..Len(resps) |->
            IF resps[i].decision = d
            THEN WeightOf(w, resps[i].provider_name) * 100
            ELSE 0 ]) ]

\* _calculate_weighted_votes: thousandths per decision, all three keys present.
CalculateWeightedVotes(resps, w) ==
    [ d \in Decisions |->
        SumSeq([ i \in 1..Len(resps) |->
            IF resps[i].decision = d
            THEN WeightOf(w, resps[i].provider_name) * resps[i].confidence
            ELSE 0 ]) ]

\* _count_votes: dict(Counter(...)) has a key only for a decision that occurs.
CountVotes(resps) ==
    [ d \in { resps[i].decision : i \in 1..Len(resps) } |->
        Cardinality({ i \in 1..Len(resps) : resps[i].decision = d }) ]

\* A mutated winner: the decision with the most raw votes.
WinningDecisionByCount(wv, resps) ==
    LET n(d) == Cardinality({ i \in 1..Len(resps) : resps[i].decision = d })
    IN DecisionOrder[PyMaxIndex(DecisionOrder, n)]

\* A mutated winner: among equal maximal masses the last key wins.
WinningDecisionLastOfTie(wv, resps) ==
    LET mass(d) == wv[d]
        reversed == <<"HOLD", "SELL", "BUY">>
    IN reversed[PyMaxIndex(reversed, mass)]

\* decision = max(weighted_votes.items(), key=lambda x: x[1])[0]
WinningDecision(wv, resps) ==
    LET mass(d) == wv[d]
    IN DecisionOrder[PyMaxIndex(DecisionOrder, mass)]

Supporters(resps, decision) ==
    LET votes(r) == r.decision = decision IN FilterSeq(resps, votes)

\* A mutated confidence: the agreement bonus 0.3 * agreement_factor is lost.
CalculateConsensusConfidenceNoBonus(resps, decision, w) ==
    LET sup == Supporters(resps, decision)
        total_weight ==
            SumSeq([ i \in 1..Len(sup) |-> WeightOf(w, sup[i].provider_name) ])
        weighted_sum ==
            SumSeq([ i \in 1..Len(sup) |->
                sup[i].confidence * WeightOf(w, sup[i].provider_name) ])
    IN IF sup = <<>> \/ total_weight = 0 THEN <<0, 1>>
       ELSE Rat(weighted_sum * BaseFactor, 1000 * total_weight)

\* A mutated confidence: the plain mean of the supporters' confidences
\* takes the place of the weight-normalised one.
CalculateConsensusConfidenceUnweighted(resps, decision, w) ==
    LET sup == Supporters(resps, decision)
        total == SumSeq([ i \in 1..Len(sup) |-> sup[i].confidence ])
        num == total * (BaseFactor * Len(resps) + AgreementBonus * Len(sup))
        den == 1000 * Len(sup) * Len(resps)
    IN IF sup = <<>> THEN <<0, 1>>
       ELSE IF num > den THEN <<1, 1>>
       ELSE Rat(num, den)

\* _calculate_consensus_confidence
CalculateConsensusConfidence(resps, decision, w) ==
    LET sup == Supporters(resps, decision)
        total_weight ==
            SumSeq([ i \in 1..Len(sup) |-> WeightOf(w, sup[i].provider_name) ])
        weighted_sum ==
            SumSeq([ i \in 1..Len(sup) |->
                sup[i].confidence * WeightOf(w, sup[i].provider_name) ])
        num == weighted_sum
                 * (BaseFactor * Len(resps) + AgreementBonus * Len(sup))
        den == 1000 * total_weight * Len(resps)
    IN IF sup = <<>> THEN <<0, 1>>
       ELSE IF total_weight = 0 THEN <<0, 1>>
       ELSE IF num > den THEN <<1, 1>>      \* min(1.0, max(0.0, final))
       ELSE Rat(num, den)

\* A mutated agreement score: the share of the raw votes.
CalculateAgreementScoreByCount(resps, decision, wv) ==
    Rat(Len(Supporters(resps, decision)), Len(resps))

\* A mutated agreement score: 1.0 when the total mass is zero.
CalculateAgreementScoreOneWhenEmpty(resps, decision, wv) ==
    LET total_weight == wv["BUY"] + wv["SELL"] + wv["HOLD"]
    IN IF total_weight = 0 THEN <<1, 1>>
       ELSE Rat(wv[decision], total_weight)

\* _calculate_agreement_score
CalculateAgreementScore(resps, decision, wv) ==
    LET total_weight == wv["BUY"] + wv["SELL"] + wv["HOLD"]
    IN IF total_weight = 0 THEN <<0, 1>>
       ELSE Rat(wv[decision], total_weight)

NoReasoning ==
    [ agree |-> 0, of |-> 0, text |-> "No consensus reasoning available" ]

\* _aggregate_reasoning: "Consensus (k/n providers agree): " + the reasoning
\* of max(supporting_responses, key=confidence), i.e. of the first most
\* confident supporter.
AggregateReasoning(resps, decision) ==
    LET sup == Supporters(resps, decision)
        conf(r) == r.confidence
    IN IF sup = <<>> THEN NoReasoning
       ELSE [ agree |-> Len(sup), of |-> Len(resps),
              text |-> sup[PyMaxIndex(sup, conf)].reasoning ]

RiskPriority(level) ==
    CASE Lower(level) = "high" -> 3
      [] Lower(level) = "medium" -> 2
      [] Lower(level) = "low" -> 1
      [] OTHER -> 2                       \* risk_priority.get(x.lower(), 2)

\* A mutated risk aggregation: the level of the first response that has one.
AggregateRiskLevelFirst(resps) ==
    LET has(r) == TruthyStr(r.risk_level)
        with == FilterSeq(resps, has)
    IN IF with = <<>> THEN "medium" ELSE with[1].risk_level[1]

\* _aggregate_risk_level
AggregateRiskLevel(resps) ==
    LET has(r) == TruthyStr(r.risk_level)
        with == FilterSeq(resps, has)
        risk_levels == [ i \in 1..Len(with) |-> with[i].risk_level[1] ]
    IN IF risk_levels = <<>> THEN "medium"
       ELSE risk_levels[PyMaxIndex(risk_levels, RiskPriority)]

\* sorted(values)[len(values) // 2]
UpperMedian(values) ==
    LET leq(a, b) == a <= b
        sorted == SortSeq(values, leq)
    IN sorted[(Len(sorted) \div 2) + 1]

\* _aggregate_stop_loss
AggregateStopLoss(resps, decision) ==
    LET keep(r) == r.decision = decision /\ Truthy(r.suggested_stop_loss)
        sup == FilterSeq(resps, keep)
    IN IF sup = <<>> THEN <<>>
       ELSE << UpperMedian([ i \in 1..Len(sup) |->
                                sup[i].suggested_stop_loss[1] ]) >>

\* _aggregate_take_profit
AggregateTakeProfit(resps, decision) ==
    LET keep(r) == r.decision = decision /\ Truthy(r.suggested_take_profit)
        sup == FilterSeq(resps, keep)
    IN IF sup = <<>> THEN <<>>
       ELSE << UpperMedian([ i \in 1..Len(sup) |->
                                sup[i].suggested_take_profit[1] ]) >>

ValueError(msg) == [ kind |-> "ValueError", message |-> msg ]

\* SignalAggregator.aggregate, for an aggregator built with min_providers = m
aggregate(resps, w, m) ==
    IF resps = <<>> THEN ValueError("No provider responses to aggregate")
    ELSE IF Len(resps) < m THEN ValueError("Insufficient providers")
    ELSE
      LET weighted_votes == CalculateWeightedVotes(resps, w)
          decision == WinningDecision(weighted_votes, resps)
      IN [ kind |-> "ConsensusResult",
           decision |-> decision,
           confidence |-> CalculateConsensusConfidence(resps, decision, w),
           reasoning |-> AggregateReasoning(resps, decision),
           risk_level |-> AggregateRiskLevel(resps),
           suggested_stop_loss |-> AggregateStopLoss(resps, decision),
           suggested_take_profit |-> AggregateTakeProfit(resps, decision),
           total_providers |-> Len(resps),
           participating_providers |-> Len(resps),
           agreement_score |->
               CalculateAgreementScore(resps, decision, weighted_votes),
           provider_responses |-> resps,
           vote_breakdown |-> CountVotes(resps),
           weighted_votes |-> weighted_votes ]

----------------------------------------------------------------------------
(* ProviderRegistry and BaseLLMProvider *)

\* The handles created at startup, in the order of their registration.
\* Every handle is registered under its config.name, which identifies it.
RegisteredNames == <<"p1", "p2", "p3">>

\* The handle objects of the process; a handle removed from the registry
\* still exists for the calls that hold a reference to it.
Handles == { RegisteredNames[i] : i \in 1..Len(RegisteredNames) }

\* name in self._providers
IsRegistered(name) == \E i \in 1..Len(providers) : providers[i] = name

\* The counters of a handle on which generate_signal was never called.
NoRequests == [ request_count |-> 0, error_count |-> 0 ]

\* The state of the iterator over self._providers.items() that the for-loop
\* of health_check_all holds: the keys the dict had when the loop started
\* and whether a key was inserted or deleted since.  This is its value while
\* no loop runs.
NoIteration == [ names |-> {}, changed |-> FALSE ]

\* A key is inserted into or deleted from self._providers: a running loop
\* of health_check_all sees the entries that are left (the entry whose probe
\* it awaits stays its current one, a new entry comes last).
DictChanged(queue) ==
    IF hc_pc = "loop"
    THEN /\ hc_queue' = queue
         /\ hc_iter' = [hc_iter EXCEPT !.changed = TRUE]
         /\ UNCHANGED <<hc_pc, hc_results, hc_pending>>
    ELSE UNCHANGED healthVars

\* The entries a running loop has still to visit, without those of `names`.
QueueWithout(names) ==
    LET kept(n) == n \notin names
    IN IF hc_pending # {}
       THEN <<Head(hc_queue)>> \o SelectSeq(Tail(hc_queue), kept)
       ELSE SelectSeq(hc_queue, kept)

\* The adapter class of each handle.  AnthropicProvider.generate_signal
\* calls set_status after every call; the OpenAI, Gemini and Grok adapters
\* never change the status in generate_signal.
AdapterClass(name) ==
    CASE name = "p1" -> "anthropic"
      [] name = "p2" -> "openai"
      [] OTHER -> "gemini"

\* ProviderConfig.weight of each handle, in tenths.
ConfigWeight(name) ==
    CASE name = "p1" -> 10
      [] name = "p2" -> 10
      [] OTHER -> 5

\* A mutated availability test that forgets CIRCUIT_OPEN.
IsAvailableUnlessUnavailable(name) ==
    /\ enabled[name]
    /\ status[name] # "unavailable"

\* BaseLLMProvider.is_available
IsAvailable(name) ==
    /\ enabled[name]
    /\ status[name] # "unavailable"
    /\ status[name] # "circuit_open"

\* ProviderRegistry.get_available_providers: in registration order
GetAvailableProviders ==
    LET avail(name) == IsAvailable(name)
    IN SelectSeq(providers, avail)

\* ProviderRegistry.get_provider
GetProvider(name) == IF IsRegistered(name) THEN <<name>> ELSE <<>>

\* ProviderRegistry.disable_provider
DisableProvider(name) ==
    /\ GetProvider(name) # <<>>
    /\ enabled' = [enabled EXCEPT ![name] = FALSE]
    /\ UNCHANGED <<status, aggVars, orchVars, callVars>>
    /\ UNCHANGED <<providers, healthVars, adapterVars>>

\* ProviderRegistry.enable_provider
EnableProvider(name) ==
    /\ GetProvider(name) # <<>>
    /\ enabled' = [enabled EXCEPT ![name] = TRUE]
    /\ UNCHANGED <<status, aggVars, orchVars, callVars>>
    /\ UNCHANGED <<providers, healthVars, adapterVars>>

\* The names that remove_provider and register_provider are called with.
RemovableNames == {"p3"}

\* ProviderRegistry.register_provider(name, handle) for a handle registered
\* under its config.name: a new key is appended to the dict, an existing key
\* is overwritten in place.
RegisterProvider(name) ==
    /\ IF IsRegistered(name)
       THEN UNCHANGED <<providers, healthVars>>
       ELSE /\ providers' = Append(providers, name)
            /\ DictChanged(Append(hc_queue, name))
    /\ UNCHANGED <<registryVars, adapterVars, aggVars, orchVars, callVars>>

\* ProviderRegistry.remove_provider
RemoveProvider(name) ==
    /\ IF IsRegistered(name)
       THEN /\ providers' = LET other(n) == n # name
                            IN SelectSeq(providers, other)
            /\ DictChanged(QueueWithout({name}))
       ELSE UNCHANGED <<providers, healthVars>>
    /\ UNCHANGED <<registryVars, adapterVars, aggVars, orchVars, callVars>>

\* ProviderRegistry.clear
Clear ==
    /\ providers' = <<>>
    /\ IF providers # <<>>
       THEN DictChanged(QueueWithout(Handles))
       ELSE UNCHANGED healthVars
    /\ UNCHANGED <<registryVars, adapterVars, aggVars, orchVars, callVars>>

----------------------------------------------------------------------------
(* Provider calls: _call_provider_safe around provider.generate_signal *)

NoTask == [ st |-> "none", value |-> <<>>, error |-> "" ]

Pending == [ st |-> "pending", value |-> <<>>, error |-> "" ]

Returned(value) == [ st |-> "returned", value |-> value, error |-> "" ]

Raised(error) == [ st |-> "raised", value |-> <<>>, error |-> error ]

Cancelled == [ st |-> "cancelled", value |-> <<>>, error |-> "" ]

\* What generate_signal can raise; "Exception" is any error that is not a
\* ProviderError.
RaisedErrors ==
    { "ProviderTimeoutError", "ProviderRateLimitError",
      "ProviderAuthenticationError", "ProviderError", "Exception" }

\* _call_provider_safe re-raises a ProviderError (or subtype) and wraps any
\* other exception in a ProviderError.
CallProviderSafeError(error) ==
    IF error = "Exception" THEN "ProviderError" ELSE error

\* The responses a provider can return in this model.
SignalsOf(name) ==
    { ProviderResponse(name, d, 80, ReasoningOf(name), <<"medium">>,
                       <<>>, <<>>) : d \in {"BUY", "SELL"} }

\* An adapter that took every failure for an authentication failure.
StatusAfterAnyFailureUnavailable(name, outcome) ==
    IF AdapterClass(name) # "anthropic" THEN status[name]
    ELSE IF outcome = "ok" THEN "active"
    ELSE "unavailable"

\* AnthropicProvider.generate_signal: set_status(ACTIVE) on success,
\* UNAVAILABLE on an authentication error, DEGRADED on any other failure.
StatusAfter(name, outcome) ==
    IF AdapterClass(name) # "anthropic" THEN status[name]
    ELSE IF outcome = "ok" THEN "active"
    ELSE IF outcome = "ProviderAuthenticationError" THEN "unavailable"
    ELSE "degraded"

\* generate_signal of one pending provider returns a ProviderResponse.
ProviderReturns(name, r) ==
    /\ pc = "gather"
    /\ task[name] = Pending
    /\ task' = [task EXCEPT ![name] = Returned(<<r>>)]
    /\ status' = [status EXCEPT ![name] = StatusAfter(name, "ok")]
    /\ UNCHANGED <<enabled, aggVars, orchVars, pc, provider_weights,
                   available_providers, failures, aggregator_called>>
    /\ UNCHANGED <<providers, healthVars, adapterVars>>

\* generate_signal of one pending provider completes without a response:
\* with max_retries = 0 the retry loop of AnthropicProvider.generate_signal
\* has no iteration, last_error is None and the method returns None without
\* touching metrics or status.
ProviderReturnsNone(name) ==
    /\ pc = "gather"
    /\ AdapterClass(name) = "anthropic"
    /\ task[name] = Pending
    /\ task' = [task EXCEPT ![name] = Returned(<<>>)]
    /\ UNCHANGED <<registryVars, aggVars, orchVars, pc, provider_weights,
                   available_providers, failures, aggregator_called>>
    /\ UNCHANGED <<providers, healthVars, adapterVars>>

\* generate_signal of one pending provider raises.
ProviderRaises(name, error) ==
    /\ pc = "gather"
    /\ task[name] = Pending
    /\ task' = [task EXCEPT ![name] = Raised(CallProviderSafeError(error))]
    /\ status' = [status EXCEPT ![name] = StatusAfter(name, error)]
    /\ UNCHANGED <<enabled, aggVars, orchVars, pc, provider_weights,
                   available_providers, failures, aggregator_called>>
    /\ UNCHANGED <<providers, healthVars, adapterVars>>

----------------------------------------------------------------------------
(* MultiProviderOrchestrator.generate_consensus_signal *)

\* SignalAggregator.__init__(min_providers=1, ...)
AggMinProviders == 1

MaxMinProviders == 3   \* min_providers is drawn from 0..MaxMinProviders

MaxCalls == 2          \* generate_consensus_signal calls per behaviour

RuntimeError(msg) == [ kind |-> "RuntimeError", message |-> msg ]

NoAvailableMsg == "No available providers in registry"

InsufficientAvailableMsg == "Insufficient available providers"

InsufficientSuccessfulMsg == "Insufficient successful provider responses"

AggregateFailedMsg == "Failed to aggregate consensus"

\* The provider_weights arguments of this model: None, or an override for p2.
ProviderWeightsArgs == { <<>>, [ n \in {"p2"} |-> 5 ] }

\* A mutated availability check that lets one provider too few through.
AvailabilityErrorOffByOne(avail, m) ==
    IF avail = <<>> THEN NoAvailableMsg
    ELSE IF Len(avail) + 1 < m THEN InsufficientAvailableMsg
    ELSE ""

\* The two availability checks before the fan-out: the message of the
\* ValueError raised, "" if none is.
AvailabilityError(avail, m) ==
    IF avail = <<>> THEN NoAvailableMsg
    ELSE IF Len(avail) < m THEN InsufficientAvailableMsg
    ELSE ""

\* A mutated quorum check that only rejects an empty response list.
InsufficientSuccessfulOnlyEmpty(resps, m) == resps = <<>> /\ m > 0

\* if len(responses) < self.min_providers
InsufficientSuccessful(resps, m) == Len(resps) < m

\* The first part of generate_consensus_signal, up to the await of the
\* fan-out: count the request, query the registry, fail fast or create one
\* _call_provider_safe task per available provider.
StartCall(pw) ==
    /\ pc \in {"idle", "returned", "raised"}
    /\ total_requests < MaxCalls
    /\ total_requests' = total_requests + 1
    /\ provider_weights' = pw
    /\ available_providers' = GetAvailableProviders
    /\ responses' = <<>>
    /\ weights' = <<>>
    /\ failures' = <<>>
    /\ aggregator_called' = FALSE
    /\ LET err == AvailabilityError(GetAvailableProviders, min_providers)
       IN IF err # ""
          THEN /\ failed_requests' = failed_requests + 1
               /\ consensus' = << ValueError(err) >>
               /\ task' = [ n \in Handles |-> NoTask ]
               /\ pc' = "raised"
          ELSE /\ failed_requests' = failed_requests
               /\ consensus' = <<>>
               /\ task' = [ n \in Handles |->
                             IF \E i \in 1..Len(GetAvailableProviders) :
                                    GetAvailableProviders[i] = n
                             THEN Pending ELSE NoTask ]
               /\ pc' = "gather"
    /\ UNCHANGED <<registryVars, min_providers, successful_requests>>
    /\ UNCHANGED <<providers, healthVars, adapterVars>>

\* The ProviderTimeoutError that replaces every result on the overall timeout.
OrchestrationTimeoutResult(name) == Raised("ProviderTimeoutError")

\* responses: the results that are ProviderResponse, in provider order.
PartitionResponses(avail, results) ==
    LET ok(name) == results[name].st = "returned" /\ results[name].value # <<>>
        names == SelectSeq(avail, ok)
    IN [ i \in 1..Len(names) |-> results[names[i]].value[1] ]

\* failures: provider.config.name -> the exception, or a ValueError for a
\* result that is neither a ProviderResponse nor an exception.
PartitionFailures(avail, results) ==
    LET failed == { avail[i] : i \in { j \in 1..Len(avail) :
                        ~(/\ results[avail[j]].st = "returned"
                          /\ results[avail[j]].value # <<>>) } }
    IN [ name \in failed |->
           IF results[name].st = "raised" THEN results[name].error
           ELSE "ValueError: Unexpected result type" ]

\* A mutated precedence: the configured weight wins over the caller's override.
BuildWeightsDictConfigFirst(resps, custom) ==
    [ name \in { resps[i].provider_name : i \in 1..Len(resps) } |->
        IF GetProvider(name) # <<>> THEN ConfigWeight(GetProvider(name)[1])
        ELSE IF custom # <<>> /\ name \in DOMAIN custom THEN custom[name]
        ELSE DefaultWeight ]

\* _build_weights_dict
BuildWeightsDict(resps, custom) ==
    [ name \in { resps[i].provider_name : i \in 1..Len(resps) } |->
        IF custom # <<>> /\ name \in DOMAIN custom THEN custom[name]
        ELSE IF GetProvider(name) # <<>> THEN ConfigWeight(GetProvider(name)[1])
        ELSE DefaultWeight ]

\* A mutated stamping that leaves the aggregator's total_providers in place.
StampKeepsAggregatorTotal(result, avail) == result

\* consensus.total_latency_ms / consensus.total_providers are overwritten.
Stamp(result, avail) == [ result EXCEPT !.total_providers = Len(avail) ]

\* A mutated ending that forgets to count a call that fails the quorum check.
FinishCallQuorumFailureUncounted(results) ==
    LET resps == PartitionResponses(available_providers, results)
        w == BuildWeightsDict(resps, provider_weights)
        agg == aggregate(resps, w, min_providers)
    IN /\ responses' = resps
       /\ failures' = PartitionFailures(available_providers, results)
       /\ IF InsufficientSuccessful(resps, min_providers)
          THEN /\ consensus' = << ValueError(InsufficientSuccessfulMsg) >>
               /\ pc' = "raised"
               /\ UNCHANGED <<weights, aggregator_called, successful_requests,
                              failed_requests>>
          ELSE /\ weights' = w
               /\ aggregator_called' = TRUE
               /\ IF agg.kind # "ConsensusResult"
                  THEN /\ failed_requests' = failed_requests + 1
                       /\ consensus' = << RuntimeError(AggregateFailedMsg) >>
                       /\ pc' = "raised"
                       /\ UNCHANGED successful_requests
                  ELSE /\ successful_requests' = successful_requests + 1
                       /\ consensus' = << Stamp(agg, available_providers) >>
                       /\ pc' = "returned"
                       /\ UNCHANGED failed_requests

\* The rest of generate_consensus_signal once _call_providers_parallel has
\* its results: partition, quorum check, weights, aggregation, stamping and
\* the request counters.
FinishCall(results) ==
    \E resps \in {PartitionResponses(available_providers, results)} :
    \E w \in {BuildWeightsDict(resps, provider_weights)} :
    \E agg \in {aggregate(resps, w, min_providers)} :
       /\ responses' = resps
       /\ failures' = PartitionFailures(available_providers, results)
       /\ IF InsufficientSuccessful(resps, min_providers)
          THEN /\ failed_requests' = failed_requests + 1
               /\ consensus' = << ValueError(InsufficientSuccessfulMsg) >>
               /\ pc' = "raised"
               /\ UNCHANGED <<weights, aggregator_called, successful_requests>>
          ELSE /\ weights' = w
               /\ aggregator_called' = TRUE
               /\ IF agg.kind # "ConsensusResult"
                  THEN /\ failed_requests' = failed_requests + 1
                       /\ consensus' = << RuntimeError(AggregateFailedMsg) >>
                       /\ pc' = "raised"
                       /\ UNCHANGED successful_requests
                  ELSE /\ successful_requests' = successful_requests + 1
                       /\ consensus' = << Stamp(agg, available_providers) >>
                       /\ pc' = "returned"
                       /\ UNCHANGED failed_requests

\* asyncio.gather completes: every task has returned or raised.
GatherCompletes ==
    /\ pc = "gather"
    /\ \A n \in Handles : task[n].st # "pending"
    /\ FinishCall(task)
    /\ UNCHANGED <<registryVars, min_providers, total_requests,
                   provider_weights, available_providers, task>>
    /\ UNCHANGED <<providers, healthVars, adapterVars>>

\* A fan-out that awaits asyncio.gather alone, without asyncio.wait_for.
FanOutWithoutTimeout ==
    /\ pc = "gather"
    /\ FALSE
    /\ UNCHANGED <<registryVars, aggVars, orchVars, callVars>>
    /\ UNCHANGED <<providers, healthVars, adapterVars>>

\* asyncio.wait_for times out while some task is still pending: the pending
\* tasks are cancelled and the except branch replaces ALL results.
OrchestrationTimeout ==
    /\ pc = "gather"
    /\ \E n \in Handles : task[n].st = "pending"
    /\ task' = [ n \in Handles |->
                   IF task[n].st = "pending" THEN Cancelled ELSE task[n] ]
    /\ FinishCall([ n \in Handles |-> OrchestrationTimeoutResult(n) ])
    /\ UNCHANGED <<registryVars, min_providers, total_requests,
                   provider_weights, available_providers>>
    /\ UNCHANGED <<providers, healthVars, adapterVars>>

Init ==
    /\ responses = <<>>
    /\ weights = <<>>
    /\ consensus = <<>>
    /\ enabled = [ n \in Handles |-> TRUE ]
    /\ status = [ n \in Handles |-> "active" ]
    /\ min_providers \in 0..MaxMinProviders
    /\ total_requests = 0
    /\ successful_requests = 0
    /\ failed_requests = 0
    /\ pc = "idle"
    /\ provider_weights = <<>>
    /\ available_providers = <<>>
    /\ task = [ n \in Handles |-> NoTask ]
    /\ failures = <<>>
    /\ aggregator_called = FALSE
    /\ providers = RegisteredNames
    /\ hc_pc = "idle"
    /\ hc_queue = <<>>
    /\ hc_results = <<>>
    /\ hc_pending = {}
    /\ hc_iter = NoIteration
    /\ handle = "p1"
    /\ max_retries = 0
    /\ gpc = "idle"
    /\ attempt = 0
    /\ api_log = <<>>
    /\ sleeps = 0
    /\ call_result = <<>>
    /\ metrics = NoRequests
    /\ completed = <<>>

Next ==
    \/ \E pw \in ProviderWeightsArgs : StartCall(pw)
    \/ \E n \in Handles : \E r \in SignalsOf(n) : ProviderReturns(n, r)
    \/ \E n \in Handles : ProviderReturnsNone(n)
    \/ \E n \in Handles : \E e \in RaisedErrors : ProviderRaises(n, e)
    \/ GatherCompletes
    \/ OrchestrationTimeout
    \/ \E n \in Handles : DisableProvider(n)
    \/ \E n \in Handles : EnableProvider(n)
    \/ \E n \in RemovableNames : RegisterProvider(n)
    \/ \E n \in RemovableNames : RemoveProvider(n)

Spec == Init /\ [][Next]_vars

----------------------------------------------------------------------------
(* generate_consensus_signal calls while the application resets and reads *)
(* the orchestrator's metrics                                             *)

\* MultiProviderOrchestrator.reset_metrics: callable at any time, also
\* while a generate_consensus_signal call awaits its fan-out.
ResetMetrics ==
    /\ total_requests' = 0
    /\ successful_requests' = 0
    /\ failed_requests' = 0
    /\ UNCHANGED <<min_providers, registryVars, aggVars, callVars>>
    /\ UNCHANGED <<providers, healthVars, adapterVars>>

\* success_rate of MultiProviderOrchestrator.get_metrics, as a fraction.
SuccessRate ==
    IF total_requests > 0 THEN Rat(successful_requests, total_requests)
    ELSE Rat(0, 1)

MetricsNext ==
    \/ StartCall(<<>>)
    \/ \E n \in Handles : \E r \in SignalsOf(n) : ProviderReturns(n, r)
    \/ \E n \in Handles : \E e \in RaisedErrors : ProviderRaises(n, e)
    \/ GatherCompletes
    \/ OrchestrationTimeout
    \/ ResetMetrics

SpecMetrics == Init /\ [][MetricsNext]_vars

----------------------------------------------------------------------------
(* generate_consensus_signal under the scheduling of the event loop *)

\* The calls and their providers; a provider's generate_signal may return,
\* raise, or stay pending for ever.
FanOutNext ==
    \/ \E pw \in ProviderWeightsArgs : StartCall(pw)
    \/ \E n \in Handles : \E r \in SignalsOf(n) : ProviderReturns(n, r)
    \/ \E n \in Handles : \E e \in RaisedErrors : ProviderRaises(n, e)
    \/ GatherCompletes
    \/ OrchestrationTimeout

\* The event loop resumes a coroutine whose awaited future is done: the
\* call goes on once gather has every result, and the timer that
\* asyncio.wait_for set with timeout_seconds fires while a task is pending.
\* Nothing makes a provider answer.
SpecFanOut ==
    /\ Init
    /\ [][FanOutNext]_vars
    /\ WF_vars(GatherCompletes)
    /\ WF_vars(OrchestrationTimeout)

----------------------------------------------------------------------------
(* generate_consensus_signal called with weight overrides of any value *)

\* ConsensusRequestSerializer.validate_provider_weights, the check the HTTP
\* view makes before it calls the orchestrator: the message of the
\* ValidationError, "" when the value passes.  1 is 10 tenths.
ValidateProviderWeights(value) ==
    IF value # <<>> /\ \E n \in DOMAIN value : value[n] < 0 \/ value[n] > 10
    THEN "Weight must be between 0 and 1"
    ELSE ""

\* The provider_weights arguments of direct calls: None, an override of 0.5
\* and an override of 1.5 for p2.
OverrideArgs ==
    { <<>>, [ n \in {"p2"} |-> 5 ], [ n \in {"p2"} |-> 15 ] }

OverridesNext ==
    \/ \E pw \in OverrideArgs : StartCall(pw)
    \/ \E n \in Handles : \E r \in SignalsOf(n) : ProviderReturns(n, r)
    \/ \E n \in Handles : \E e \in RaisedErrors : ProviderRaises(n, e)
    \/ GatherCompletes

SpecOverrides == Init /\ [][OverridesNext]_vars

----------------------------------------------------------------------------
(* The registry and its handles used directly: status changes, health       *)
(* checks, availability queries and generate_signal calls on single handles *)

\* class ProviderStatus(Enum)
ProviderStatuses == {"active", "degraded", "unavailable", "circuit_open"}

\* The set_status calls that the application makes on a handle itself.
SetStatusNames == {"p2"}

SetStatusValues == {"unavailable", "circuit_open"}

\* BaseLLMProvider.set_status
SetStatus(name, new_status) ==
    /\ status' = [status EXCEPT ![name] = new_status]
    /\ UNCHANGED <<providers, enabled, healthVars, adapterVars, aggVars,
                   orchVars, callVars>>

\* A call of registry.get_available_providers(); its result is kept in
\* available_providers.
GetAvailableProvidersCall ==
    /\ available_providers' = GetAvailableProviders
    /\ UNCHANGED <<providers, registryVars, healthVars, adapterVars, aggVars,
                   orchVars, pc, provider_weights, task, failures,
                   aggregator_called>>

\* What generate_signal of an adapter class can raise: the Gemini and Grok
\* adapters turn every exception into a plain ProviderError.
AdapterRaises(class) ==
    IF class \in {"anthropic", "openai"}
    THEN { "ProviderTimeoutError", "ProviderRateLimitError",
           "ProviderAuthenticationError", "ProviderError" }
    ELSE { "ProviderError" }

\* A generate_signal call on one handle ends, with a response ("ok") or by
\* raising; whoever started it, the adapter then sets the handle's status.
GenerateSignalEnds(name, result) ==
    /\ result \in {"ok"} \cup AdapterRaises(AdapterClass(name))
    /\ status' = [status EXCEPT ![name] = StatusAfter(name, result)]
    /\ UNCHANGED <<providers, enabled, healthVars, adapterVars, aggVars,
                   orchVars, callVars>>

\* How the API answers the probe that health_check sends.
ProbeOutcomes == {"ok", "timeout", "rate_limit", "error"}

\* health_check of an adapter: what it returns and the status it leaves.
\* AnthropicProvider.health_check sets the status itself (ACTIVE when the
\* probe is answered, DEGRADED on asyncio.TimeoutError, UNAVAILABLE on any
\* other exception); OpenAIProvider.health_check takes a rate-limited probe
\* as healthy; no health_check lets an exception escape.
AdapterHealthCheck(name, probe) ==
    CASE AdapterClass(name) = "anthropic" ->
           [ healthy |-> probe = "ok",
             status |-> CASE probe = "ok" -> "active"
                          [] probe = "timeout" -> "degraded"
                          [] OTHER -> "unavailable" ]
      [] AdapterClass(name) = "openai" ->
           [ healthy |-> probe \in {"ok", "rate_limit"},
             status |-> status[name] ]
      [] OTHER ->
           [ healthy |-> probe = "ok", status |-> status[name] ]

\* The status health_check_all leaves after a probe: ACTIVE for a healthy
\* handle found UNAVAILABLE, the handle's status otherwise; DEGRADED for an
\* unhealthy handle.
StatusAfterHealthCheck(check) ==
    IF check.healthy
    THEN IF check.status = "unavailable" THEN "active" ELSE check.status
    ELSE "degraded"

\* The dict iterator finds that the size of the dict is not the size it had
\* when the loop started: its next step raises RuntimeError.
SizeChanged == Len(providers) # Cardinality(hc_iter.names)

\* health_check_all returns results.
HealthCheckAllReturns ==
    /\ hc_pc' = "idle"
    /\ hc_pending' = {}

\* RuntimeError leaves health_check_all: the for statement is outside the
\* try block of the loop body.
HealthCheckAllRaises ==
    /\ hc_pc' = "raised"
    /\ hc_pending' = {}

\* The loop body starts to await provider.health_check() of the first
\* handle of queue.
HealthCheckProbeStarts(queue) ==
    /\ hc_pc' = "loop"
    /\ hc_pending' = {Head(queue)}

\* What the iterator can do when the for statement asks for the next item.
\* It raises RuntimeError ("dictionary changed size during iteration") when
\* the size differs; after keys were inserted or deleted with the size
\* restored it may raise ("dictionary keys changed during iteration"), go
\* on, or end before it has visited every entry.
IteratorOutcomes ==
    IF SizeChanged THEN {"raise"}
    ELSE IF hc_iter.changed THEN {"raise", "next", "stop"}
    ELSE {"next"}

\* The for statement takes the next item of queue, the entries the loop
\* has not visited.
ForLoopNext(queue, outcome) ==
    /\ hc_queue' = queue
    /\ CASE outcome = "raise" -> HealthCheckAllRaises
         [] outcome = "stop" -> HealthCheckAllReturns
         [] OTHER -> IF queue = <<>> THEN HealthCheckAllReturns
                     ELSE HealthCheckProbeStarts(queue)

\* health_check_all is called: results = {}, the for-loop over
\* self._providers.items() starts and runs up to its first await.
HealthCheckAllStart ==
    /\ hc_pc \in {"idle", "raised"}
    /\ hc_results' = <<>>
    /\ hc_iter' = [ names |-> { providers[i] : i \in 1..Len(providers) },
                    changed |-> FALSE ]
    /\ ForLoopNext(providers, "next")
    /\ UNCHANGED <<providers, registryVars, adapterVars, aggVars, orchVars,
                   callVars>>

\* await provider.health_check() of the handle completes: its result is
\* recorded and the status updated, and health_check_all runs on to its
\* next await, its return or the RuntimeError of the for statement.
HealthCheckStep(probe) ==
    /\ hc_pc = "loop"
    /\ hc_queue # <<>>
    /\ Head(hc_queue) \in hc_pending
    /\ LET name == Head(hc_queue)
           check == AdapterHealthCheck(name, probe)
       IN /\ hc_results' =
                [ n \in DOMAIN hc_results \cup {name} |->
                    IF n = name THEN check.healthy ELSE hc_results[n] ]
          /\ status' = [status EXCEPT
                          ![name] = StatusAfterHealthCheck(check)]
    /\ \E outcome \in IteratorOutcomes :
          ForLoopNext(Tail(hc_queue), outcome)
    /\ UNCHANGED <<hc_iter, providers, enabled, adapterVars, aggVars,
                   orchVars, callVars>>

\* The registries this part starts from: every handle registered, or p3
\* never registered and p2 registered before p1.
RegistryContents == { RegisteredNames, <<"p2", "p1">> }

RegistryInit ==
    /\ providers \in RegistryContents
    /\ enabled = [ n \in Handles |-> TRUE ]
    /\ status = [ n \in Handles |-> "active" ]
    /\ hc_pc = "idle"
    /\ hc_queue = <<>>
    /\ hc_results = <<>>
    /\ hc_pending = {}
    /\ hc_iter = NoIteration
    /\ responses = <<>>
    /\ weights = <<>>
    /\ consensus = <<>>
    /\ min_providers = AggMinProviders
    /\ total_requests = 0
    /\ successful_requests = 0
    /\ failed_requests = 0
    /\ pc = "idle"
    /\ provider_weights = <<>>
    /\ available_providers = <<>>
    /\ task = [ n \in Handles |-> NoTask ]
    /\ failures = <<>>
    /\ aggregator_called = FALSE
    /\ handle = "p1"
    /\ max_retries = 0
    /\ gpc = "idle"
    /\ attempt = 0
    /\ api_log = <<>>
    /\ sleeps = 0
    /\ call_result = <<>>
    /\ metrics = NoRequests
    /\ completed = <<>>

RegistryNext ==
    \/ \E n \in Handles : DisableProvider(n)
    \/ \E n \in Handles : EnableProvider(n)
    \/ \E n \in SetStatusNames : \E st \in SetStatusValues : SetStatus(n, st)
    \/ GetAvailableProvidersCall
    \/ \E n \in Handles :
         \E res \in {"ok"} \cup AdapterRaises(AdapterClass(n)) :
            GenerateSignalEnds(n, res)
    \/ HealthCheckAllStart
    \/ \E probe \in ProbeOutcomes : HealthCheckStep(probe)

SpecRegistry == RegistryInit /\ [][RegistryNext]_vars

\* health_check_all while the application enables and disables handles and
\* registers, removes and clears registry entries.
HealthNext ==
    \/ \E n \in Handles : DisableProvider(n)
    \/ \E n \in Handles : EnableProvider(n)
    \/ \E n \in RemovableNames : RegisterProvider(n)
    \/ \E n \in RemovableNames : RemoveProvider(n)
    \/ Clear
    \/ HealthCheckAllStart
    \/ \E probe \in ProbeOutcomes : HealthCheckStep(probe)

SpecHealth == RegistryInit /\ [][HealthNext]_vars

----------------------------------------------------------------------------
(* One generate_signal call of an adapter, attempt by attempt.  The Grok    *)
(* adapter has the code of the Gemini adapter and goes by its class here.   *)

MaxRetries == 2   \* config.max_retries is drawn from 0..MaxRetries

\* OpenAIProvider.DEFAULT_MAX_RETRIES
DefaultMaxRetries == 3

\* How one API attempt can end: with a reply text (valid, with the decision
\* in lower case, with a decision outside BUY/SELL/HOLD, with a confidence
\* above 1, without the reasoning field, or not JSON at all), or with the
\* API call failing (timed out, rate limited, authentication refused, any
\* other API or connection error).
Replies ==
    { "reply_valid", "reply_lowercase", "reply_bad_decision",
      "reply_bad_confidence", "reply_missing_field", "reply_not_json" }

ApiFailures == { "timeout", "rate_limit", "auth", "api_error" }

ApiOutcomes == Replies \cup ApiFailures

\* The JSON object of a reply: the keys it has, its decision and its
\* confidence (hundredths).
ReplyObject(reply) ==
    CASE reply = "reply_lowercase" ->
           [ keys |-> {"decision", "confidence", "reasoning"},
             decision |-> "buy", confidence |-> 85 ]
      [] reply = "reply_bad_decision" ->
           [ keys |-> {"decision", "confidence", "reasoning"},
             decision |-> "MAYBE", confidence |-> 85 ]
      [] reply = "reply_bad_confidence" ->
           [ keys |-> {"decision", "confidence", "reasoning"},
             decision |-> "SELL", confidence |-> 150 ]
      [] reply = "reply_missing_field" ->
           [ keys |-> {"decision", "confidence"},
             decision |-> "BUY", confidence |-> 85 ]
      [] OTHER ->
           [ keys |-> {"decision", "confidence", "reasoning"},
             decision |-> "BUY", confidence |-> 85 ]

\* str.upper() on the decision strings that occur.
Upper(str) ==
    CASE str = "buy" -> "BUY"
      [] str = "sell" -> "SELL"
      [] str = "hold" -> "HOLD"
      [] OTHER -> str

\* _parse_response of an adapter class: the exception it raises ("" if
\* none) and the decision and confidence of the signal it returns.  The
\* Anthropic and OpenAI adapters upper-case the decision before they test
\* it, the Gemini and Grok adapters test it as it is.  A text that is not
\* JSON is a ValueError in the Anthropic adapter (_extract_json) and a
\* json.JSONDecodeError in the others.
ParseResponse(class, reply) ==
    LET obj == ReplyObject(reply)
        decision == IF class = "gemini" THEN obj.decision
                    ELSE Upper(obj.decision)
        error ==
            IF reply = "reply_not_json"
            THEN IF class = "anthropic" THEN "ValueError"
                 ELSE "JSONDecodeError"
            ELSE IF {"decision", "confidence", "reasoning"} \ obj.keys # {}
            THEN "ValueError"
            ELSE IF decision \notin Decisions THEN "ValueError"
            ELSE IF ~(0 <= obj.confidence /\ obj.confidence <= 100)
            THEN "ValueError"
            ELSE ""
    IN [ error |-> error, decision |-> decision,
         confidence |-> obj.confidence ]

\* The attempt produced a response: the API answered and the reply parsed.
AttemptSucceeds(class, api) ==
    api \in Replies /\ ParseResponse(class, api).error = ""

\* Whether the except clause that catches a failed attempt retries it while
\* attempts are left.  AnthropicProvider retries everything but a
\* ProviderAuthenticationError; OpenAIProvider retries asyncio.TimeoutError,
\* RateLimitError, APIConnectionError and unexpected exceptions but neither
\* AuthenticationError nor a reply that does not parse or validate; the
\* Gemini and Grok adapters have no retry loop.
Retried(class, api) ==
    CASE class = "anthropic" -> api # "auth"
      [] class = "openai" -> api \in {"timeout", "rate_limit", "api_error"}
      [] OTHER -> FALSE

\* The error generate_signal raises for a failed attempt that is not retried.
ErrorRaised(class, api) ==
    IF class = "gemini" THEN "ProviderError"
    ELSE CASE api = "timeout" -> "ProviderTimeoutError"
           [] api = "rate_limit" -> "ProviderRateLimitError"
           [] api = "auth" -> "ProviderAuthenticationError"
           [] OTHER -> "ProviderError"

\* self.max_retries = config.max_retries or self.DEFAULT_MAX_RETRIES
OpenAIMaxRetries(configured) ==
    IF configured = 0 THEN DefaultMaxRetries ELSE configured

\* Whether the loop has an attempt left after the failed attempt numbered n
\* (n counts from 0): "attempt < self.config.max_retries - 1" in
\* AnthropicProvider, the negation of "retry_count >= self.max_retries" in
\* OpenAIProvider.
AttemptsLeft(class, configured, n) ==
    CASE class = "anthropic" -> n < configured - 1
      [] class = "openai" -> n < OpenAIMaxRetries(configured)
      [] OTHER -> FALSE

\* BaseLLMProvider.update_metrics(latency_ms, error): failed says whether an
\* error was passed.
UpdateMetrics(failed) ==
    [ request_count |-> metrics.request_count + 1,
      error_count |-> IF failed THEN metrics.error_count + 1
                      ELSE metrics.error_count ]

MaxSignalCalls == 2   \* generate_signal calls made on the handle

ReturnedResponse(response) == [ kind |-> "response", value |-> <<response>> ]

ReturnedNone == [ kind |-> "None", value |-> <<>> ]

RaisedError(error) == [ kind |-> error, value |-> <<>> ]

\* generate_signal is called on the handle and runs up to its first await.
\* "for attempt in range(self.config.max_retries)" of AnthropicProvider has
\* no iteration when max_retries is 0: last_error is None and the method
\* ends without a return statement.
GenerateSignalCalled ==
    /\ gpc = "idle"
    /\ call_result = <<>>
    /\ IF AdapterClass(handle) = "anthropic" /\ max_retries = 0
       THEN /\ gpc' = "returned"
            /\ call_result' = << ReturnedNone >>
            /\ completed' = Append(completed, "None")
       ELSE /\ gpc' = "attempt"
            /\ call_result' = <<>>
            /\ UNCHANGED completed
    /\ UNCHANGED <<handle, max_retries, attempt, api_log, sleeps, metrics,
                   providers,
                   registryVars, healthVars, aggVars, orchVars, callVars>>

\* The awaited API call of the current attempt ends with the outcome api,
\* and the method runs on to its return, its raise or its backoff sleep.
ApiAttempt(api) ==
    LET class == AdapterClass(handle)
        signal == ParseResponse(class, api)
    IN /\ gpc = "attempt"
       /\ api_log' = Append(api_log, api)
       /\ IF AttemptSucceeds(class, api)
          THEN /\ gpc' = "returned"
               /\ call_result' =
                    << ReturnedResponse(
                         ProviderResponse(handle, signal.decision,
                                          signal.confidence,
                                          ReasoningOf(handle),
                                          <<>>, <<>>, <<>>)) >>
               /\ status' = [status EXCEPT
                               ![handle] = StatusAfter(handle, "ok")]
               /\ metrics' = UpdateMetrics(FALSE)
               /\ completed' = Append(completed, "response")
               /\ UNCHANGED <<attempt, sleeps>>
          ELSE IF Retried(class, api)
                  /\ AttemptsLeft(class, max_retries, attempt)
          THEN /\ gpc' = "sleep"
               /\ sleeps' = sleeps + 1
               /\ attempt' = IF class = "openai" THEN attempt + 1
                             ELSE attempt
               /\ UNCHANGED <<call_result, status, metrics, completed>>
          ELSE /\ gpc' = "raised"
               /\ call_result' = << RaisedError(ErrorRaised(class, api)) >>
               /\ status' = [status EXCEPT
                               ![handle] =
                                   StatusAfter(handle,
                                               ErrorRaised(class, api))]
               /\ metrics' = UpdateMetrics(TRUE)
               /\ completed' = Append(completed, ErrorRaised(class, api))
               /\ UNCHANGED <<attempt, sleeps>>
       /\ UNCHANGED <<handle, max_retries, providers, enabled, healthVars,
                      aggVars, orchVars, callVars>>

\* The backoff sleep is over and the loop goes into its next attempt.
BackoffEnds ==
    /\ gpc = "sleep"
    /\ gpc' = "attempt"
    /\ attempt' = IF AdapterClass(handle) = "anthropic" THEN attempt + 1
                  ELSE attempt
    /\ UNCHANGED <<handle, max_retries, api_log, sleeps, call_result,
                   metrics, completed, providers, registryVars, healthVars,
                   aggVars, orchVars, callVars>>

\* The application calls generate_signal on the handle again.
NextSignalCall ==
    /\ gpc \in {"returned", "raised"}
    /\ Len(completed) < MaxSignalCalls
    /\ gpc' = "idle"
    /\ attempt' = 0
    /\ api_log' = <<>>
    /\ sleeps' = 0
    /\ call_result' = <<>>
    /\ UNCHANGED <<handle, max_retries, metrics, completed, providers,
                   registryVars, healthVars, aggVars, orchVars, callVars>>

\* The statuses in which get_available_providers hands out a handle.
CallableStatuses == {"active", "degraded"}

\* A handle of any adapter class, configured with any max_retries and
\* available, on which generate_signal has not been called yet.
AdapterInit ==
    /\ handle \in Handles
    /\ max_retries \in 0..MaxRetries
    /\ \E st \in CallableStatuses :
         status = [ n \in Handles |-> IF n = handle THEN st ELSE "active" ]
    /\ gpc = "idle"
    /\ attempt = 0
    /\ api_log = <<>>
    /\ sleeps = 0
    /\ call_result = <<>>
    /\ metrics = NoRequests
    /\ completed = <<>>
    /\ providers = RegisteredNames
    /\ enabled = [ n \in Handles |-> TRUE ]
    /\ hc_pc = "idle"
    /\ hc_queue = <<>>
    /\ hc_results = <<>>
    /\ hc_pending = {}
    /\ hc_iter = NoIteration
    /\ responses = <<>>
    /\ weights = <<>>
    /\ consensus = <<>>
    /\ min_providers = AggMinProviders
    /\ total_requests = 0
    /\ successful_requests = 0
    /\ failed_requests = 0
    /\ pc = "idle"
    /\ provider_weights = <<>>
    /\ available_providers = <<>>
    /\ task = [ n \in Handles |-> NoTask ]
    /\ failures = <<>>
    /\ aggregator_called = FALSE

AdapterNext ==
    \/ GenerateSignalCalled
    \/ \E api \in ApiOutcomes : ApiAttempt(api)
    \/ BackoffEnds
    \/ NextSignalCall

SpecAdapter == AdapterInit /\ [][AdapterNext]_vars

----------------------------------------------------------------------------
(* Direct calls of SignalAggregator.aggregate on bounded inputs *)

MaxRich == 2      \* responses per call, full confidence and weight ranges

MaxWide == 4      \* responses per call, positive confidences and weights

MaxRisk == 3      \* responses per call, varying risk levels

MaxPriced == 3    \* responses per call, varying stop-loss / take-profit

ProviderNames == <<"p1", "p2", "p3", "p4", "p5", "p6">>

\* The response list whose i-th response comes from the i-th provider and
\* takes its fields from the tuple f[i].
ResponseList(k, f) ==
    [ i \in 1..k |->
        ProviderResponse(ProviderNames[i], f[i][1], f[i][2],
                         ReasoningOf(ProviderNames[i]),
                         f[i][3], f[i][4], f[i][5]) ]

\* Inputs: up to n responses with fields from the given value sets, and a
\* weight map with an entry from Ws for every responding provider.
AggInputs(n, Ds, Cs, Ws, Rs, SLs, TPs) ==
    \E k \in 0..n :
      \E f \in [1..k -> Ds \X Cs \X Rs \X SLs \X TPs] :
        \E w \in [ { ProviderNames[i] : i \in 1..k } -> Ws ] :
          /\ responses = ResponseList(k, f)
          /\ weights = w

\* Inputs with an empty weight map: every weight defaults to 1.0.
AggInputsDefaultWeights(n, Ds, Cs, Rs, SLs, TPs) ==
    \E k \in 0..n :
      \E f \in [1..k -> Ds \X Cs \X Rs \X SLs \X TPs] :
          /\ responses = ResponseList(k, f)
          /\ weights = <<>>

RichInputs ==
    AggInputs(MaxRich, Decisions, {0, 50, 90}, {0, 5, 10},
              {<<>>}, {<<>>}, {<<>>})

WideInputs ==
    AggInputs(MaxWide, Decisions, {80}, {5, 10}, {<<>>}, {<<>>}, {<<>>})

RiskInputs ==
    AggInputsDefaultWeights(MaxRisk, {"BUY", "SELL"}, {80},
        {<<>>, <<"low">>, <<"medium">>, <<"high">>, <<"HIGH">>},
        {<<>>}, {<<>>})

PricedInputs ==
    AggInputsDefaultWeights(MaxPriced, {"BUY", "SELL"}, {80}, {<<>>},
        {<<>>, <<0>>, <<100>>, <<102>>, <<999>>}, {<<>>, <<110>>})

\* Four providers with weights 1.0, 1.0, 0.8, 0.7 voting BUY(0.85),
\* BUY(0.90), HOLD(0.75), BUY(0.80).
ExampleVotes ==
    << <<"BUY", 85, <<>>, <<>>, <<>>>>, <<"BUY", 90, <<>>, <<>>, <<>>>>,
       <<"HOLD", 75, <<>>, <<>>, <<>>>>, <<"BUY", 80, <<>>, <<>>, <<>>>> >>

ExampleWeights ==
    [ n \in {"p1", "p2", "p3", "p4"} |->
        CASE n = "p3" -> 8
          [] n = "p4" -> 7
          [] OTHER -> 10 ]

\* The four responses of the example, listed in any order.
ExampleInputs ==
    \E pi \in Permutations(1..4) :
        /\ responses = [ i \in 1..4 |-> ResponseList(4, ExampleVotes)[pi[i]] ]
        /\ weights = ExampleWeights

AggInit ==
    /\ \/ RichInputs
       \/ WideInputs
       \/ RiskInputs
       \/ PricedInputs
       \/ ExampleInputs
    /\ consensus = <<>>
    /\ enabled = [ n \in Handles |-> TRUE ]
    /\ status = [ n \in Handles |-> "active" ]
    /\ min_providers = AggMinProviders
    /\ total_requests = 0
    /\ successful_requests = 0
    /\ failed_requests = 0
    /\ pc = "idle"
    /\ provider_weights = <<>>
    /\ available_providers = <<>>
    /\ task = [ n \in Handles |-> NoTask ]
    /\ failures = <<>>
    /\ aggregator_called = FALSE
    /\ providers = RegisteredNames
    /\ hc_pc = "idle"
    /\ hc_queue = <<>>
    /\ hc_results = <<>>
    /\ hc_pending = {}
    /\ hc_iter = NoIteration
    /\ handle = "p1"
    /\ max_retries = 0
    /\ gpc = "idle"
    /\ attempt = 0
    /\ api_log = <<>>
    /\ sleeps = 0
    /\ call_result = <<>>
    /\ metrics = NoRequests
    /\ completed = <<>>

\* result = aggregator.aggregate(responses, weights)
AggregateCall ==
    /\ consensus = <<>>
    /\ consensus' = << aggregate(responses, weights, AggMinProviders) >>
    /\ UNCHANGED <<responses, weights, registryVars, orchVars, callVars>>
    /\ UNCHANGED <<providers, healthVars, adapterVars>>

AggNext == AggregateCall

SpecAgg == AggInit /\ [][AggNext]_vars

----------------------------------------------------------------------------
(* Properties of SignalAggregator.aggregate *)

Aggregated ==
    /\ consensus # <<>>
    /\ consensus[1].kind = "ConsensusResult"

Result == consensus[1]

Idx == 1..Len(responses)

\* The list of responses reordered by the permutation pi of its indices.
Reordered(pi) == [ i \in Idx |-> responses[pi[i]] ]

\* The fields of a ConsensusResult that a caller reads.
Output(r) ==
    << r.decision, r.confidence, r.agreement_score, r.reasoning, r.risk_level,
       r.suggested_stop_loss, r.suggested_take_profit, r.vote_breakdown,
       r.weighted_votes >>

Unanimous ==
    /\ responses # <<>>
    /\ \A i \in Idx : responses[i].decision = responses[1].decision

\* weight x confidence summed over the voters of d, in thousandths
RECURSIVE MassOver(_, _)
MassOver(S, d) ==
    IF S = {} THEN 0
    ELSE LET i == CHOOSE x \in S : TRUE
         IN (IF responses[i].decision = d
             THEN WeightOf(weights, responses[i].provider_name)
                    * responses[i].confidence
             ELSE 0) + MassOver(S \ {i}, d)

Mass(d) == MassOver(Idx, d)

RECURSIVE ConfidenceOver(_)
ConfidenceOver(S) ==
    IF S = {} THEN 0
    ELSE LET i == CHOOSE x \in S : TRUE
         IN responses[i].confidence + ConfidenceOver(S \ {i})

\* The unweighted arithmetic mean of the input confidences, as a rational.
MeanConfidence == Rat(ConfidenceOver(Idx), 100 * Len(responses))

EqualPositiveWeights ==
    \A i \in Idx :
        /\ WeightOf(weights, responses[i].provider_name) > 0
        /\ WeightOf(weights, responses[i].provider_name)
             = WeightOf(weights, responses[1].provider_name)

\* C4 (as claimed): aggregate returns the same decision, confidence,
\* agreement score, reasoning, risk level, stop-loss, take-profit, vote
\* breakdown and weighted votes for every ordering of the response list.
C4_PermutationInvariance ==
    Aggregated =>
        \A pi \in Permutations(Idx) :
            Output(aggregate(Reordered(pi), weights, AggMinProviders))
                = Output(Result)

\* C5 (as claimed): if all responses carry the same decision D, the result's
\* decision is D and its agreement score is exactly 1.0, for all weights and
\* confidences in [0,1].
C5_UnanimityAgreement ==
    (Aggregated /\ Unanimous) =>
        /\ Result.decision = responses[1].decision
        /\ Result.agreement_score = <<1, 1>>

\* C6 (as claimed): if all responses share the same decision, the consensus
\* confidence is at least the unweighted mean of the input confidences, for
\* every assignment of weights in [0,1].
C6_UnanimityConfidenceAnyWeights ==
    (Aggregated /\ Unanimous) => RatLeq(MeanConfidence, Result.confidence)

\* C6 (amended): if all responses share the same decision and all their
\* providers have one and the same positive weight, the consensus confidence
\* is at least the unweighted mean of the input confidences.
C6_UnanimityConfidenceEqualWeights ==
    (Aggregated /\ Unanimous /\ EqualPositiveWeights) =>
        RatLeq(MeanConfidence, Result.confidence)

\* C6 witness: a unanimous call of two providers of equal positive weight
\* and different confidences has been aggregated.
C6_Witness ==
    /\ Aggregated /\ Unanimous /\ EqualPositiveWeights
    /\ Len(responses) = 2
    /\ responses[1].confidence # responses[2].confidence
    /\ Result.confidence = MeanConfidence

\* The 2 BUY at weight 1.0 against 2 SELL at weight 0.5 example.
DominanceExample ==
    /\ Len(responses) = 4
    /\ \E B \in SUBSET Idx :
         /\ Cardinality(B) = 2
         /\ \A i \in B :
              /\ responses[i].decision = "BUY"
              /\ WeightOf(weights, responses[i].provider_name) = 10
         /\ \A i \in Idx \ B :
              /\ responses[i].decision = "SELL"
              /\ WeightOf(weights, responses[i].provider_name) = 5
    /\ \A i \in Idx :
         /\ responses[i].confidence > 0
         /\ responses[i].confidence = responses[1].confidence

\* C7: the returned decision has maximal weighted vote mass (no decision has
\* strictly greater mass), and in the 2 BUY x 1.0 against 2 SELL x 0.5
\* example the decision is BUY with weighted_votes[BUY] > weighted_votes[SELL].
C7_WeightDominance ==
    Aggregated =>
        /\ \A d \in Decisions : Mass(d) <= Mass(Result.decision)
        /\ DominanceExample =>
             /\ Result.decision = "BUY"
             /\ Result.weighted_votes["BUY"] > Result.weighted_votes["SELL"]

\* C7 witness: the example has been aggregated.
C7_Witness == Aggregated /\ DominanceExample

\* The non-null values that the voters of the winning decision supplied.
SupporterValues(field(_)) ==
    LET keep(r) == r.decision = Result.decision /\ field(r) # <<>>
        sup == SelectSeq(responses, keep)
    IN [ i \in 1..Len(sup) |-> field(sup[i])[1] ]

\* opt is the median of the values: the middle one of an odd number of
\* values, the mean of the two middle ones of an even number, and absent
\* exactly when there is no value.
IsMedianOf(opt, values) ==
    LET leq(a, b) == a <= b
        sorted == SortSeq(values, leq)
        n == Len(values)
    IN IF n = 0 THEN opt = <<>>
       ELSE /\ opt # <<>>
            /\ IF n % 2 = 1
               THEN opt[1] = sorted[(n + 1) \div 2]
               ELSE 2 * opt[1] = sorted[n \div 2] + sorted[(n \div 2) + 1]

StopLossOf(r) == r.suggested_stop_loss

TakeProfitOf(r) == r.suggested_take_profit

\* C8 (as claimed): the aggregated stop-loss and take-profit are the medians
\* of the non-null values supplied by the voters of the winning decision, for
\* odd and even counts and every value including 0, and absent exactly when
\* no supporter supplied a value.
C8_MedianRobustness ==
    Aggregated =>
        /\ IsMedianOf(Result.suggested_stop_loss, SupporterValues(StopLossOf))
        /\ IsMedianOf(Result.suggested_take_profit,
                      SupporterValues(TakeProfitOf))

Severity(level) ==
    CASE level \in {"high", "HIGH"} -> 3
      [] level \in {"medium", "MEDIUM"} -> 2
      [] level \in {"low", "LOW"} -> 1

WithRisk == { i \in Idx : responses[i].risk_level # <<>> }

\* C9: the returned risk level is one found among the input responses and no
\* input response, whatever it voted for, has a level of higher severity.
C9_RiskConservatism ==
    (Aggregated /\ WithRisk # {}) =>
        /\ \E i \in WithRisk : Result.risk_level = responses[i].risk_level[1]
        /\ \A i \in WithRisk :
             Severity(responses[i].risk_level[1]) <= Severity(Result.risk_level)

\* C9 witness: levels low, medium and high were aggregated and the only
\* high-risk response voted against the winning decision.
C9_Witness ==
    /\ Aggregated
    /\ { responses[i].risk_level : i \in Idx }
         = { <<"low">>, <<"medium">>, <<"high">> }
    /\ \A i \in Idx :
         responses[i].risk_level = <<"high">>
            => responses[i].decision # Result.decision
    /\ Result.risk_level = "high"

\* The inputs are the four responses and the weights of the example.
IsExample ==
    /\ Len(responses) = 4
    /\ { responses[i] : i \in Idx }
         = { ResponseList(4, ExampleVotes)[i] : i \in 1..4 }
    /\ weights = ExampleWeights

\* The rational x, rounded to two decimals, is c hundredths.
RoundsTo(x, c) ==
    /\ (2 * c - 1) * x[2] <= 200 * x[1]
    /\ 200 * x[1] < (2 * c + 1) * x[2]

\* What the example yields apart from the agreement score.
ExampleVerdict ==
    /\ Result.decision = "BUY"
    /\ DOMAIN Result.vote_breakdown = {"BUY", "HOLD"}
    /\ Result.vote_breakdown["BUY"] = 3
    /\ Result.vote_breakdown["HOLD"] = 1
    /\ Result.participating_providers = 4

\* C13 (as claimed): the example yields decision BUY, vote_breakdown
\* {BUY: 3, HOLD: 1}, participating_providers 4 and an agreement score that
\* is 0.78 to two decimals.
C13_EndToEndExample078 ==
    (Aggregated /\ IsExample) =>
        /\ ExampleVerdict
        /\ RoundsTo(Result.agreement_score, 78)

\* C13 (amended): the example yields decision BUY, vote_breakdown
\* {BUY: 3, HOLD: 1}, participating_providers 4 and the agreement score
\* 2.31 / 2.91 (weighted BUY mass over total weighted mass), which is 0.79
\* to two decimals.
C13_EndToEndExample079 ==
    (Aggregated /\ IsExample) =>
        /\ ExampleVerdict
        /\ Result.weighted_votes["BUY"] = 2310
        /\ Result.weighted_votes["HOLD"] = 600
        /\ Result.weighted_votes["SELL"] = 0
        /\ Result.agreement_score = Rat(2310, 2910)
        /\ RoundsTo(Result.agreement_score, 79)

\* C13 witness: the example, with the HOLD vote listed first, was aggregated.
C13_Witness ==
    /\ Aggregated
    /\ IsExample
    /\ responses[1].decision = "HOLD"
    /\ Result.decision = "BUY"

\* The largest weighted vote mass of a decision.
MaxMass == CHOOSE m \in { Mass(d) : d \in Decisions } :
               \A d \in Decisions : Mass(d) <= m

\* The decisions of maximal mass; a tie when there are several.
Leaders == { d \in Decisions : Mass(d) = MaxMass }

\* The response list in the opposite order.
Reversed == Reordered([ i \in Idx |-> Len(responses) + 1 - i ])

\* C24: the returned decision is a decision of maximal weighted vote mass,
\* and among several of equal maximal mass it is BUY if BUY is one of them,
\* else SELL.  The order of the responses plays no part: the masses are
\* sums over the set of responses, and the list taken in the opposite
\* order gives the same decision.
C24_TieBreak ==
    Aggregated =>
        /\ Result.decision \in Leaders
        /\ "BUY" \in Leaders => Result.decision = "BUY"
        /\ ("BUY" \notin Leaders /\ "SELL" \in Leaders)
              => Result.decision = "SELL"
        /\ aggregate(Reversed, weights, AggMinProviders).decision
             = Result.decision

\* C24 witness: HOLD, SELL and BUY were voted in this order with equal
\* positive mass, and BUY was returned.
C24_Witness ==
    /\ Aggregated
    /\ Len(responses) = 3
    /\ responses[1].decision = "HOLD"
    /\ responses[2].decision = "SELL"
    /\ responses[3].decision = "BUY"
    /\ Leaders = Decisions
    /\ MaxMass > 0
    /\ Result.decision = "BUY"

\* The responses that voted for decision d.
Voters(d) == { i \in Idx : responses[i].decision = d }

\* The result took the branch for a winner without supporters.
EmptySupportersBranch ==
    /\ Result.reasoning = NoReasoning
    /\ Result.confidence = <<0, 1>>
    /\ Result.suggested_stop_loss = <<>>
    /\ Result.suggested_take_profit = <<>>

\* C25 (as claimed): whenever aggregate returns a result, at least one
\* response voted for the returned decision and the result was not built
\* by the empty-supporters branch, zero weights and confidences included.
C25_WinnerHasSupporters ==
    Aggregated =>
        /\ Voters(Result.decision) # {}
        /\ Result.reasoning # NoReasoning

\* C25 restricted to inputs of positive total mass: the claim's statement
\* holds for them.
C25_WinnerHasSupportersWithPositiveMass ==
    (Aggregated /\ MaxMass > 0) => C25_WinnerHasSupporters

\* C26: weighted_votes has exactly the keys BUY, SELL and HOLD, and each
\* value is the sum of weight x confidence over the responses that voted for
\* that decision, a provider absent from the weight map weighing 1.0; a
\* decision nobody voted for is present with 0.
C26_WeightedVotes ==
    Aggregated =>
        /\ DOMAIN Result.weighted_votes = Decisions
        /\ \A d \in Decisions :
              /\ Result.weighted_votes[d] = Mass(d)
              /\ Voters(d) = {} => Result.weighted_votes[d] = 0

\* C26 witness: with an empty weight map, BUY(0.80) and SELL(0.80) gave
\* BUY 0.8, SELL 0.8 and HOLD, which nobody voted for, 0.
C26_Witness ==
    /\ Aggregated
    /\ weights = <<>>
    /\ Len(responses) = 2
    /\ Voters("HOLD") = {}
    /\ Result.weighted_votes
         = [ d \in Decisions |-> IF d = "HOLD" THEN 0 ELSE 800 ]

\* The weights of the voters of d, summed, in tenths.
RECURSIVE WeightOver(_, _)
WeightOver(S, d) ==
    IF S = {} THEN 0
    ELSE LET i == CHOOSE x \in S : TRUE
         IN (IF responses[i].decision = d
             THEN IF responses[i].provider_name \in DOMAIN weights
                  THEN weights[responses[i].provider_name]
                  ELSE 10
             ELSE 0) + WeightOver(S \ {i}, d)

\* (sum of weight x confidence / sum of weight) x (0.7 + 0.3 x k/n) for the
\* k supporters of d among the n responses, 0 when their weights sum to 0,
\* clamped to [0,1].
ExpectedConfidence(d) ==
    LET k == Cardinality(Voters(d))
        n == Len(responses)
        num == Mass(d) * (7 * n + 3 * k)
        den == 1000 * WeightOver(Idx, d) * n
    IN IF WeightOver(Idx, d) = 0 THEN <<0, 1>>
       ELSE IF num > den THEN <<1, 1>>
       ELSE Rat(num, den)

\* C27: the confidence of the result is the weight-normalised mean of the
\* supporters' confidences times 0.7 + 0.3 x k/n, it is 0 when the
\* supporters' weights sum to 0, and it lies in [0,1].
C27_ConsensusConfidence ==
    Aggregated =>
        /\ Result.confidence = ExpectedConfidence(Result.decision)
        /\ RatLeq(<<0, 1>>, Result.confidence)
        /\ RatLeq(Result.confidence, <<1, 1>>)

\* C27 witness: BUY(0.90) at weight 1.0 and BUY(0.50) at weight 0.5 gave
\* (0.90 + 0.25) / 1.5 x 1.0 = 23/30.
C27_Witness ==
    /\ Aggregated
    /\ Len(responses) = 2
    /\ Unanimous
    /\ responses[1].confidence = 90 /\ weights[responses[1].provider_name] = 10
    /\ responses[2].confidence = 50 /\ weights[responses[2].provider_name] = 5
    /\ Result.confidence = <<23, 30>>

SeverityOrMedium(r) ==
    IF r.risk_level = <<>> THEN 2 ELSE Severity(r.risk_level[1])

\* C29 (as claimed): the returned risk level is as severe as the most
\* severe level of the responses when an absent level counts as medium; so
\* low and absent levels together give medium, and so do absent levels alone.
C29_AbsentRiskIsMedium ==
    Aggregated =>
        /\ \A i \in Idx :
              Severity(Result.risk_level) >= SeverityOrMedium(responses[i])
        /\ (\A i \in Idx : responses[i].risk_level = <<>>)
              => Result.risk_level = "medium"

\* The part of C29 that holds: when every risk level is absent the result
\* is medium, and the result is never less severe than a level that is
\* present.
C29_AllAbsentIsMedium ==
    Aggregated =>
        /\ (\A i \in Idx : responses[i].risk_level = <<>>)
              => Result.risk_level = "medium"
        /\ \A i \in WithRisk :
              Severity(Result.risk_level)
                >= Severity(responses[i].risk_level[1])

----------------------------------------------------------------------------
(* Properties of MultiProviderOrchestrator.generate_consensus_signal *)

\* The call has ended: it returned a ConsensusResult or raised.
CallEnded == pc \in {"returned", "raised"}

\* The providers whose generate_signal returned a ProviderResponse.
SuccessfulTasks ==
    { n \in Handles : task[n].st = "returned" /\ task[n].value # <<>> }

FailedTasks == { n \in Handles : task[n].st = "raised" }

CancelledTasks == { n \in Handles : task[n].st = "cancelled" }

StartedTasks == { n \in Handles : task[n].st # "none" }

RespondedNames == { responses[i].provider_name : i \in 1..Len(responses) }

ResponseUsed(n) ==
    \E i \in 1..Len(responses) : responses[i] = task[n].value[1]

Raises(msg) ==
    /\ pc = "raised"
    /\ consensus = << ValueError(msg) >>

ReturnsConsensus ==
    /\ pc = "returned"
    /\ consensus # <<>>
    /\ consensus[1].kind = "ConsensusResult"

\* C1 (as claimed): when the overall timeout elapses with 3 providers called,
\* 1 <= min_providers <= 2, two responses already returned and the third
\* call still pending, the two completed responses are kept and the call
\* returns a ConsensusResult aggregated from them, with total_providers = 3
\* and participating_providers = 2; only the pending call is a failure.
C1_TimeoutPartialSuccess ==
    ( /\ CallEnded
      /\ Len(available_providers) = 3
      /\ min_providers \in 1..2
      /\ Cardinality(SuccessfulTasks) = 2
      /\ Cardinality(CancelledTasks) = 1 )
    => /\ ReturnsConsensus
       /\ Len(responses) = 2
       /\ \A n \in SuccessfulTasks : ResponseUsed(n)
       /\ DOMAIN failures = CancelledTasks
       /\ consensus[1].total_providers = 3
       /\ consensus[1].participating_providers = 2

\* C2: for min_providers >= 1, a call returns a ConsensusResult only if at
\* least min_providers providers responded successfully; a call that went
\* through the fan-out with fewer successes raises the 'Insufficient
\* successful provider responses' error without invoking the aggregator.
C2_QuorumEnforcement ==
    min_providers >= 1 =>
        /\ pc = "returned" =>
             /\ ReturnsConsensus
             /\ Len(responses) >= min_providers
             /\ Cardinality(SuccessfulTasks) >= min_providers
             /\ consensus[1].participating_providers >= min_providers
        /\ ( /\ CallEnded
             /\ StartedTasks # {}
             /\ \/ Cardinality(SuccessfulTasks) < min_providers
                \/ Len(responses) < min_providers )
           => /\ Raises(InsufficientSuccessfulMsg)
              /\ ~aggregator_called

\* C2 witness: with min_providers = 2, a fan-out without overall timeout
\* ended with one successful response and was rejected.
C2_Witness ==
    /\ min_providers = 2
    /\ CallEnded
    /\ Cardinality(SuccessfulTasks) = 1
    /\ Cardinality(FailedTasks) = 2
    /\ Raises(InsufficientSuccessfulMsg)

\* C3: if get_available_providers() returned no handle, or fewer handles
\* than min_providers, the call raises the insufficient-available-providers
\* error and no provider's generate_signal is started in that call.
C3_FailFast ==
    ( /\ pc # "idle"
      /\ \/ available_providers = <<>>
         \/ Len(available_providers) < min_providers )
    => /\ \/ Raises(NoAvailableMsg)
          \/ Raises(InsufficientAvailableMsg)
       /\ StartedTasks = {}
       /\ ~aggregator_called

\* C3 witness: a call found some but too few available providers and raised.
C3_Witness ==
    /\ available_providers # <<>>
    /\ Len(available_providers) < min_providers
    /\ Raises(InsufficientAvailableMsg)
    /\ StartedTasks = {}

\* C10 (as claimed): when some provider's generate_signal raised, the other
\* providers' responses are still used, the failing provider is recorded in
\* failures under its name and is absent from the responses, and the call
\* returns a ConsensusResult as long as at least min_providers succeeded.
\* (Stated for min_providers >= 1.)
C10_FailureIsolation ==
    (CallEnded /\ FailedTasks # {} /\ min_providers >= 1) =>
        /\ \A n \in FailedTasks :
             n \in DOMAIN failures /\ n \notin RespondedNames
        /\ \A n \in SuccessfulTasks : ResponseUsed(n)
        /\ Cardinality(SuccessfulTasks) >= min_providers => ReturnsConsensus

\* C10 restricted to calls that no overall timeout cut short: the claim's
\* statement holds in all of them.
C10_FailureIsolationWithoutTimeout ==
    CancelledTasks = {} => C10_FailureIsolation

\* C11: every ConsensusResult a call returns has total_providers equal to the
\* number of handles get_available_providers() returned at the start of the
\* call (one task was started for each) and participating_providers equal to
\* the number of successful responses of the call, so that
\* min_providers <= participating_providers <= total_providers, whatever was
\* enabled, disabled, registered or removed while the call was in flight.
C11_DenominatorStamping ==
    ReturnsConsensus =>
        /\ consensus[1].total_providers = Len(available_providers)
        /\ consensus[1].total_providers = Cardinality(StartedTasks)
        /\ consensus[1].participating_providers = Cardinality(SuccessfulTasks)
        /\ consensus[1].participating_providers = Len(responses)
        /\ min_providers <= consensus[1].participating_providers
        /\ consensus[1].participating_providers
             <= consensus[1].total_providers

\* C11 witness: a call over three providers returned a result built from two
\* responses after one of its providers was removed from the registry and
\* another one was disabled.
C11_Witness ==
    /\ ReturnsConsensus
    /\ consensus[1].total_providers = 3
    /\ consensus[1].participating_providers = 2
    /\ ~IsRegistered("p3")
    /\ \E n \in StartedTasks : ~enabled[n]

\* The weight that _build_weights_dict owes to the responding provider n when
\* the caller passed the overrides custom: the override, else the configured
\* weight of the handle registered under that name, else 1.0.
EffectiveWeight(n, custom) ==
    IF custom # <<>> /\ n \in DOMAIN custom THEN custom[n]
    ELSE IF IsRegistered(n) THEN ConfigWeight(n)
    ELSE DefaultWeight

\* C12: when a call hands its responses to the aggregator, the weight map has
\* an entry for exactly the names of the successful responses, and each entry
\* is the caller's override for that name if one was supplied, otherwise the
\* provider's configured weight, otherwise 1.0.
C12_WeightPrecedence ==
    [][ (~aggregator_called /\ aggregator_called') =>
          /\ DOMAIN weights'
               = { responses'[i].provider_name : i \in 1..Len(responses') }
          /\ DOMAIN weights' \subseteq SuccessfulTasks
          /\ \A n \in DOMAIN weights' :
                weights'[n] = EffectiveWeight(n, provider_weights) ]_vars

\* C12 witness: a call with an override for p2 only aggregated the responses
\* of all three providers with p2 at the override 0.5 (configured 1.0), p1
\* at its configured 1.0 and p3, removed from the registry while the call
\* was in flight, at the default 1.0 (configured 0.5).
C12_Witness ==
    /\ ReturnsConsensus
    /\ provider_weights # <<>>
    /\ DOMAIN provider_weights = {"p2"}
    /\ DOMAIN weights = {"p1", "p2", "p3"}
    /\ weights["p1"] = ConfigWeight("p1")
    /\ weights["p2"] = provider_weights["p2"]
    /\ weights["p2"] # ConfigWeight("p2")
    /\ weights["p3"] = DefaultWeight
    /\ weights["p3"] # ConfigWeight("p3")

\* The response of n gets no override from the caller.
NoOverrideFor(n) == provider_weights = <<>> \/ n \notin DOMAIN provider_weights

\* C36 (as claimed): a successful response without a caller override is
\* weighted with the configured weight of the handle that produced it, also
\* when that handle was removed from the registry while the call was in
\* flight.
C36_ConfiguredWeightFollowsHandle ==
    [][ (~aggregator_called /\ aggregator_called') =>
          \A n \in DOMAIN weights' :
              NoOverrideFor(n) => weights'[n] = ConfigWeight(n) ]_vars

\* What the lookup by name gives: the configured weight if a handle is
\* registered under the response's provider_name when the weights are
\* built, and 1.0 if none is.
C36_ConfiguredWeightWhileRegistered ==
    [][ (~aggregator_called /\ aggregator_called') =>
          \A n \in DOMAIN weights' :
              NoOverrideFor(n) =>
                  weights'[n] = IF IsRegistered(n) THEN ConfigWeight(n)
                                ELSE DefaultWeight ]_vars

\* The step ends a call (the fan-out was awaited, and the call returns or
\* raises) in which every provider that is disabled by now, having been
\* enabled when the call started its task, and whose generate_signal
\* returned a response, has that response among those the call keeps for
\* aggregation, and a returned result counts every started task in
\* total_providers.
DisabledInFlightStillCounted ==
    \A n \in Handles :
        (~enabled[n] /\ n \in SuccessfulTasks) =>
            /\ ResponseUsed(n)'
            /\ ReturnsConsensus' =>
                 consensus'[1].total_providers = Cardinality(StartedTasks')

\* C15 (as claimed): a provider disabled while the fan-out of a call is in
\* flight is treated by that call like any other: its call is not cancelled
\* by the disable, its response is still aggregated, and the call's
\* total_providers is unchanged.
C15_DisableNotRetroactive ==
    [][ (pc = "gather" /\ CallEnded') => DisabledInFlightStillCounted ]_vars

\* C15 restricted to calls that no overall timeout cut short: the claim's
\* statement holds in all of them.
C15_DisableNotRetroactiveWithoutTimeout ==
    [][ (pc = "gather" /\ CallEnded' /\ CancelledTasks' = {})
          => DisabledInFlightStillCounted ]_vars

\* C15, the registry side: disable_provider(name) removes the handle from,
\* and enable_provider(name) of a registered Active or Degraded handle puts
\* it into, the result of the very next get_available_providers call, and
\* neither touches a task of the call in flight.
C15_NextQueryReflectsChange ==
    [][ \A n \in Handles :
          /\ (enabled[n] /\ ~enabled'[n]) =>
                /\ \A i \in 1..Len(GetAvailableProviders') :
                      GetAvailableProviders'[i] # n
                /\ task' = task
          /\ (~enabled[n] /\ enabled'[n]
               /\ status[n] \in {"active", "degraded"}) =>
                /\ \E i \in 1..Len(GetAvailableProviders') :
                      GetAvailableProviders'[i] = n
                /\ task' = task ]_vars

\* Every task the call started ended as the capability contract allows: its
\* generate_signal returned a ProviderResponse or raised, and no overall
\* timeout cancelled it.
FanOutHonoursContract ==
    \A n \in StartedTasks :
        \/ n \in SuccessfulTasks
        \/ n \in FailedTasks

\* The call raised one of the two errors of the orchestrator itself: the
\* availability error before any task was started, or the quorum error
\* after the fan-out and before the aggregator was called.
RaisedOwnFailure ==
    \/ /\ \/ Raises(NoAvailableMsg)
          \/ Raises(InsufficientAvailableMsg)
       /\ StartedTasks = {}
    \/ /\ Raises(InsufficientSuccessfulMsg)
       /\ StartedTasks # {}
       /\ ~aggregator_called

\* C21 (as claimed): for every min_providers (0 included) and every fan-out
\* in which each provider returned a response or raised an error, a call
\* that raises raises the availability error or the quorum error, never the
\* RuntimeError "Failed to aggregate consensus".
C21_OnlyTwoFailureModes ==
    (pc = "raised" /\ FanOutHonoursContract) => RaisedOwnFailure

\* C21 restricted to orchestrators with min_providers >= 1: the claim's
\* statement holds for them, whatever the fan-out did.
C21_OnlyTwoFailureModesWithQuorum ==
    (pc = "raised" /\ min_providers >= 1) => RaisedOwnFailure

\* The step ends a generate_consensus_signal call: in StartCall when the call
\* fails fast, else in the step that follows the fan-out.
CallEnds ==
    /\ CallEnded'
    /\ pc = "gather" \/ total_requests' # total_requests

\* C22: every call that returns or raises has added exactly one to
\* total_requests and exactly one to exactly one of successful_requests and
\* failed_requests, to successful_requests iff it returned a
\* ConsensusResult; no other step changes a counter; hence whenever no call
\* is in flight total_requests = successful_requests + failed_requests.
C22_RequestCounters ==
    [][ /\ total_requests' \in {total_requests, total_requests + 1}
        /\ pc = "gather" => total_requests' = total_requests
        /\ (pc # "gather" /\ pc' = "gather") =>
              total_requests' = total_requests + 1
        /\ CallEnds =>
              IF ReturnsConsensus'
              THEN /\ successful_requests' = successful_requests + 1
                   /\ failed_requests' = failed_requests
              ELSE /\ successful_requests' = successful_requests
                   /\ failed_requests' = failed_requests + 1
        /\ ~CallEnds =>
              /\ successful_requests' = successful_requests
              /\ failed_requests' = failed_requests
        /\ CallEnded' =>
              total_requests' = successful_requests' + failed_requests'
        /\ pc' = "gather" =>
              total_requests' = successful_requests' + failed_requests' + 1
      ]_vars

\* C22 witness: two calls completed, one returned a ConsensusResult and one
\* raised after its fan-out, and the counters read 2 = 1 + 1.
C22_Witness ==
    /\ CallEnded
    /\ total_requests = 2
    /\ successful_requests = 1
    /\ failed_requests = 1
    /\ StartedTasks # {}

\* Every weight the call handed to the aggregator lies in [0,1].
WeightsInRange == \A n \in DOMAIN weights : 0 <= weights[n] /\ weights[n] <= 10

\* C23 (as claimed): a call given an override outside [0,1] is rejected
\* before any provider is called (it raises and no task was started), so
\* that every weight handed to the aggregator lies in [0,1].
C23_WeightRange ==
    /\ (pc # "idle" /\ ValidateProviderWeights(provider_weights) # "") =>
          /\ pc = "raised"
          /\ StartedTasks = {}
    /\ aggregator_called => WeightsInRange

\* C23 restricted to calls whose overrides pass the validation of the HTTP
\* request serializer: every weight handed to the aggregator, override,
\* configured or default, lies in [0,1].
C23_WeightRangeWhenValidated ==
    (aggregator_called /\ ValidateProviderWeights(provider_weights) = "")
        => WeightsInRange

\* C39: every generate_consensus_signal call that has started its fan-out
\* eventually returns a ConsensusResult or raises, also when a provider's
\* generate_signal never completes, because the overall timeout ends the
\* fan-out.
C39_BoundedTimeAnswer == (pc = "gather") ~> CallEnded

\* C39 witness: a call has ended by the overall timeout with the task of a
\* provider that never answered cancelled.
C39_Witness ==
    /\ CallEnded
    /\ \E n \in Handles : task[n] = Cancelled
    /\ \E n \in DOMAIN failures : failures[n] = "ProviderTimeoutError"

\* C35 (as claimed): in every reachable state, also after reset_metrics ran
\* while a call was in flight, successful_requests + failed_requests is at
\* most total_requests, and the success_rate of get_metrics lies in [0,1].
C35_CountersUnderReset ==
    /\ successful_requests + failed_requests <= total_requests
    /\ RatLeq(Rat(0, 1), SuccessRate)
    /\ RatLeq(SuccessRate, Rat(1, 1))

\* The success rate alone: reset_metrics during one call and no reset
\* during the next leaves more successes than requests.
C35_SuccessRateInRange ==
    /\ RatLeq(Rat(0, 1), SuccessRate)
    /\ RatLeq(SuccessRate, Rat(1, 1))

\* Without reset_metrics the counters are consistent in every state.
C35_CountersWithoutReset ==
    /\ successful_requests + failed_requests <= total_requests
    /\ RatLeq(Rat(0, 1), SuccessRate)
    /\ RatLeq(SuccessRate, Rat(1, 1))
    /\ total_requests <= MaxCalls

----------------------------------------------------------------------------
(* Properties of ProviderRegistry and the handles *)

\* The handles a get_available_providers call owes: the registered ones, in
\* registration order, that are enabled and Active or Degraded.
EnabledAndHealthy(n) == enabled[n] /\ status[n] \in {"active", "degraded"}

ExpectedAvailable == SelectSeq(providers, EnabledAndHealthy)

\* C14: every get_available_providers call returns exactly the registered
\* handles that are enabled and whose status is Active or Degraded (never an
\* Unavailable or CircuitOpen one), computed from the state at the time of
\* the call, so that every earlier enable/disable and status change shows.
C14_AvailabilityQuery ==
    [][ GetAvailableProvidersCall =>
          /\ available_providers' = ExpectedAvailable
          /\ \A i \in 1..Len(available_providers') :
                /\ IsRegistered(available_providers'[i])
                /\ status[available_providers'[i]]
                     \notin {"unavailable", "circuit_open"} ]_vars

\* C14 witness: a query made after p1 became Degraded, p2 CircuitOpen and p3
\* disabled returned p1 alone, where the first query would have returned all.
C14_Witness ==
    /\ providers = RegisteredNames
    /\ status["p1"] = "degraded"
    /\ status["p2"] = "circuit_open"
    /\ ~enabled["p3"]
    /\ available_providers = <<"p1">>

\* The step is the completion of a health check of n that passed.
PassingHealthCheck(n) ==
    /\ hc_pc = "loop"
    /\ hc_queue # <<>>
    /\ Head(hc_queue) = n
    /\ n \in DOMAIN hc_results'
    /\ hc_results'[n]

\* C16 (as claimed): the status of a handle that is Unavailable changes only
\* in a step that completes a passing health check of that handle (or in a
\* set_status call the application makes itself): no failing health check,
\* no generate_signal outcome and no enable/disable moves it out of
\* Unavailable.
C16_LeavingUnavailable ==
    [][ \A n \in Handles :
          (status[n] = "unavailable" /\ status'[n] # "unavailable") =>
              \/ PassingHealthCheck(n)
              \/ \E st \in SetStatusValues : SetStatus(n, st) ]_vars

\* The step is an iteration of the health_check_all loop: the probe of the
\* handle at the head of the queue completes.
HealthCheckCompletes ==
    /\ hc_pc = "loop"
    /\ hc_queue # <<>>
    /\ hc_queue' = Tail(hc_queue)

\* The step is the return of health_check_all.
HealthCheckAllCompletes == hc_pc = "loop" /\ hc_pc' = "idle"

\* The registered names, as a set.
RegisteredSet == { providers[i] : i \in 1..Len(providers) }

\* C30 (as claimed): health_check_all returns one boolean for every
\* registered provider; a handle found Active, Degraded or Unavailable
\* whose probe returned true is Active when its check completes, and a
\* handle whose probe returned false is Degraded or Unavailable.
C30_HealthCheckOutcome ==
    [][ /\ HealthCheckCompletes =>
              LET n == Head(hc_queue)
              IN /\ n \in DOMAIN hc_results'
                 /\ (hc_results'[n]
                      /\ status[n] \in {"active", "degraded", "unavailable"})
                       => status'[n] = "active"
                 /\ ~hc_results'[n]
                       => status'[n] \in {"degraded", "unavailable"}
        /\ HealthCheckAllCompletes =>
              /\ DOMAIN hc_results' = RegisteredSet
              /\ \A n \in RegisteredSet : hc_results'[n] \in BOOLEAN
      ]_vars

\* C30 without the recovery of a Degraded handle: the result has one
\* boolean per registered provider, a passing check makes an Unavailable
\* handle Active and leaves no handle Unavailable, and a failing check
\* leaves the handle Degraded.
C30_HealthCheckOutcomeFromUnavailable ==
    [][ /\ HealthCheckCompletes =>
              LET n == Head(hc_queue)
              IN /\ n \in DOMAIN hc_results'
                 /\ (hc_results'[n] /\ status[n] = "unavailable")
                       => status'[n] = "active"
                 /\ hc_results'[n] => status'[n] # "unavailable"
                 /\ ~hc_results'[n] => status'[n] = "degraded"
        /\ HealthCheckAllCompletes =>
              /\ DOMAIN hc_results' = RegisteredSet
              /\ \A n \in RegisteredSet : hc_results'[n] \in BOOLEAN
      ]_vars

\* The handles whose probe health_check_all has started in this call.
ProbesStarted == hc_pending \cup DOMAIN hc_results

\* C31 (as claimed): health_check_all starts the health_check of every
\* registered provider before it waits for any of them, so while a probe is
\* pending no handle the loop has still to visit is without a started probe.
C31_ProbesStartTogether ==
    (hc_pc = "loop" /\ hc_pending # {}) =>
        \A i \in 1..Len(hc_queue) : hc_queue[i] \in ProbesStarted

\* What the loop does instead: at most one probe is pending at any time.
C31_OneProbeAtATime == Cardinality(hc_pending) <= 1

\* The step is disable_provider(n) on an enabled handle / enable_provider(n)
\* on a disabled one.
Disables(n) == IsRegistered(n) /\ enabled[n] /\ ~enabled'[n]

Enables(n) == IsRegistered(n) /\ ~enabled[n] /\ enabled'[n]

\* C32 (as claimed): disable_provider on an Active or Degraded handle leaves
\* its status Unavailable, and enable_provider alone does not make a handle
\* available: only a passing health check does.
C32_DisableMakesUnavailable ==
    [][ \A n \in Handles :
          /\ (Disables(n) /\ status[n] \in {"active", "degraded"})
                => status'[n] = "unavailable"
          /\ (~IsAvailable(n) /\ IsAvailable(n)')
                => PassingHealthCheck(n) ]_vars

\* What the code does: disable_provider and enable_provider change
\* config.enabled and nothing else, so enabling a handle whose status is
\* Active or Degraded makes it available at once.
C32_EnableDisableKeepStatus ==
    [][ \A n \in Handles :
          (Disables(n) \/ Enables(n)) =>
              /\ status'[n] = status[n]
              /\ IsAvailable(n)' = (enabled'[n] /\
                                      status[n] \in {"active", "degraded"})
      ]_vars

\* sum(1 for healthy in health_results.values() if healthy)
HealthyCount(results) ==
    Cardinality({ n \in DOMAIN results : results[n] })

\* MultiProviderOrchestrator.health_check: the report it builds from the
\* dict that registry.health_check_all() returned.
HealthCheck(results) ==
    [ status |-> IF HealthyCount(results) >= min_providers THEN "healthy"
                 ELSE "degraded",
      available_providers |-> HealthyCount(results),
      required_providers |-> min_providers,
      provider_health |-> results ]

\* C37 (as claimed): the available_providers count of the orchestrator's
\* health_check is the number of handles get_available_providers returns
\* right after it, a disabled provider with a passing probe not being
\* counted, and the status is "healthy" only if a consensus call with the
\* same min_providers would pass its availability check.
C37_HealthReportMatchesAvailability ==
    [][ HealthCheckAllCompletes =>
          LET report == HealthCheck(hc_results')
          IN /\ report.available_providers = Len(GetAvailableProviders')
             /\ report.status = "healthy" =>
                   AvailabilityError(GetAvailableProviders',
                                     min_providers) = "" ]_vars

\* The last part of C37 alone: "healthy" is reported only if a consensus
\* call would pass its availability check.
C37_HealthyMeansQuorum ==
    [][ HealthCheckAllCompletes =>
          (HealthCheck(hc_results').status = "healthy" =>
              AvailabilityError(GetAvailableProviders', min_providers) = "")
      ]_vars

\* What the report counts: the probes that passed, whether or not their
\* handles are enabled; an enabled handle whose probe failed is Degraded,
\* still available, and not counted.  With every handle enabled a
\* "healthy" report does mean that the availability check would pass.
C37_HealthyMeansQuorumWhenAllEnabled ==
    [][ (HealthCheckAllCompletes /\ \A n \in Handles : enabled[n]) =>
          LET report == HealthCheck(hc_results')
          IN /\ report.available_providers <= Len(GetAvailableProviders')
             /\ report.status = "healthy" =>
                   AvailabilityError(GetAvailableProviders',
                                     min_providers) = "" ]_vars

\* The step of a running health_check_all neither raises nor, if it is the
\* return, leaves a provider that was registered at the start and still is
\* without a boolean in the result.
CompletesForRegistered ==
    /\ hc_pc' # "raised"
    /\ hc_pc' = "idle" =>
          \A n \in hc_iter.names :
              IsRegistered(n)' =>
                  /\ n \in DOMAIN hc_results'
                  /\ hc_results'[n] \in BOOLEAN

\* C38 (as claimed): when register_provider, remove_provider or clear runs
\* while health_check_all is suspended in a probe, health_check_all still
\* completes without raising and returns a boolean for every provider that
\* was registered when it started and still is.
C38_HealthCheckUnderMutation ==
    [][ hc_pc = "loop" => CompletesForRegistered ]_vars

\* The same for the calls during which no key was inserted into or deleted
\* from the registry (overwriting an existing key is neither).
C38_HealthCheckWithoutKeyChange ==
    [][ (hc_pc = "loop" /\ ~hc_iter.changed) => CompletesForRegistered ]_vars

----------------------------------------------------------------------------
(* Properties of the adapters' generate_signal *)

CallCompleted == gpc \in {"returned", "raised"}

Attempts == Len(api_log)

AuthenticationFailed == \E i \in 1..Attempts : api_log[i] = "auth"

ClassifiesErrors == AdapterClass(handle) \in {"anthropic", "openai"}

\* The part of C17 that every adapter meets: once an API attempt of a
\* generate_signal call has failed with an authentication failure, that
\* attempt is the last one of the call, no backoff sleep follows it (the
\* sleeps are those between the earlier attempts) and the call has raised; a
\* first attempt that fails this way is the only attempt.
NoAttemptAfterAuthenticationFailure ==
    AuthenticationFailed =>
        /\ api_log[Attempts] = "auth"
        /\ \A i \in 1..(Attempts - 1) : api_log[i] # "auth"
        /\ sleeps = Attempts - 1
        /\ gpc = "raised"
        /\ api_log[1] = "auth" => (Attempts = 1 /\ sleeps = 0)

\* C17 (as claimed): once an API attempt of a generate_signal call has
\* failed with an authentication failure, the adapter makes no further
\* attempt and no backoff sleep in that call, and the call has raised
\* ProviderAuthenticationError.
C17_AuthenticationNeverRetried ==
    /\ NoAttemptAfterAuthenticationFailure
    /\ AuthenticationFailed =>
          call_result = << RaisedError("ProviderAuthenticationError") >>

\* C17 restricted to the adapters that tell an authentication failure from
\* other failures (Anthropic and OpenAI): the claim's statement holds for
\* them, and no adapter makes another attempt.
C17_AuthenticationNeverRetriedWhereClassified ==
    /\ NoAttemptAfterAuthenticationFailure
    /\ (ClassifiesErrors /\ AuthenticationFailed) =>
          call_result = << RaisedError("ProviderAuthenticationError") >>

\* C18 (as claimed): when a generate_signal call of the Anthropic or OpenAI
\* adapter has failed with ProviderAuthenticationError, the handle's status
\* is Unavailable and get_available_providers does not return the handle.
C18_AuthenticationFailureUnavailable ==
    ( /\ ClassifiesErrors
      /\ call_result = << RaisedError("ProviderAuthenticationError") >> )
    => /\ status[handle] = "unavailable"
       /\ \A i \in 1..Len(GetAvailableProviders) :
             GetAvailableProviders[i] # handle

OnlyTransientFailures ==
    /\ Attempts >= 1
    /\ \A i \in 1..Attempts : api_log[i] \in {"timeout", "rate_limit"}

\* C19 (as claimed): a generate_signal call of the Anthropic or OpenAI
\* adapter makes at most max_retries retries after its first attempt, with
\* one backoff sleep before each retry; when all its attempts failed with
\* a timeout or a rate limit it ends by raising the error of the last one;
\* when an attempt succeeds it returns that attempt's response.
C19_BoundedRetry ==
    ClassifiesErrors =>
        /\ Attempts <= max_retries + 1
        /\ sleeps <= max_retries
        /\ (CallCompleted /\ OnlyTransientFailures) =>
              /\ sleeps = Attempts - 1
              /\ call_result
                   = << RaisedError(
                          IF api_log[Attempts] = "timeout"
                          THEN "ProviderTimeoutError"
                          ELSE "ProviderRateLimitError") >>
        /\ (Attempts >= 1 /\ api_log[Attempts] = "reply_valid") =>
              /\ gpc = "returned"
              /\ call_result[1].kind = "response"

ValidResponse(r) ==
    /\ r.decision \in Decisions
    /\ 0 <= r.confidence /\ r.confidence <= 100

\* C20 (as claimed): a completed generate_signal call has either returned a
\* ProviderResponse with a decision among BUY/SELL/HOLD and a confidence in
\* [0,1] or raised a ProviderError (or subtype); it has not returned without
\* a response, and a reply without a required field, with another decision
\* or with a confidence outside [0,1] has not been returned as a success.
C20_ResponseOrTypedError ==
    CallCompleted =>
        /\ call_result # <<>>
        /\ \/ /\ gpc = "returned"
              /\ call_result[1].kind = "response"
              /\ ValidResponse(call_result[1].value[1])
              /\ api_log[Attempts]
                   \notin { "reply_bad_decision", "reply_bad_confidence",
                            "reply_missing_field", "reply_not_json" }
           \/ /\ gpc = "raised"
              /\ call_result[1].kind
                   \in { "ProviderError", "ProviderTimeoutError",
                         "ProviderRateLimitError",
                         "ProviderAuthenticationError" }

\* The call raised after its last attempt failed otherwise than by an
\* authentication failure: by a timeout, a rate limit, a reply that does not
\* parse or validate, or another API error.
ExhaustedOnTransientFailure ==
    /\ gpc = "raised"
    /\ api_log # <<>>
    /\ api_log[Len(api_log)] # "auth"

\* The call returned a ProviderResponse.
ReturnedAResponse ==
    /\ gpc = "returned"
    /\ call_result[1].kind = "response"

\* C33: on an Anthropic handle, a generate_signal call that exhausted its
\* attempts on a transient failure leaves the handle Degraded and among the
\* handles get_available_providers returns, and a call that returned a
\* response leaves it Active.
C33_TransientFailureTransitions ==
    AdapterClass(handle) = "anthropic" =>
        /\ ExhaustedOnTransientFailure =>
              /\ status[handle] = "degraded"
              /\ \E i \in 1..Len(GetAvailableProviders) :
                     GetAvailableProviders[i] = handle
        /\ ReturnedAResponse => status[handle] = "active"

\* C33 witness: an Anthropic handle with two attempts ran into a timeout
\* and then a reply that is not JSON, and is Degraded.
C33_Witness ==
    /\ AdapterClass(handle) = "anthropic"
    /\ max_retries = 2
    /\ api_log = <<"timeout", "reply_not_json">>
    /\ ExhaustedOnTransientFailure
    /\ status[handle] = "degraded"

\* The generate_signal calls on the handle that have ended, and those of
\* them that raised.
CompletedCalls == Len(completed)

FailedCalls ==
    Cardinality({ i \in 1..Len(completed) :
                    completed[i] \notin {"response", "None"} })

MetricsMatchCalls ==
    /\ metrics.request_count = CompletedCalls
    /\ metrics.error_count = FailedCalls
    /\ metrics.error_count <= metrics.request_count

\* C34 (as claimed): every completed generate_signal call has invoked
\* update_metrics exactly once, whatever the number of its retries, so the
\* handle's request count is the number of completed calls, its error
\* count the number of failed calls, and the error count never exceeds the
\* request count.
C34_HandleMetrics == MetricsMatchCalls

\* C34 for the handles whose generate_signal makes at least one attempt:
\* all but an Anthropic handle configured with max_retries = 0.
C34_HandleMetricsWithAttempts ==
    ~(AdapterClass(handle) = "anthropic" /\ max_retries = 0)
        => MetricsMatchCalls

\* The error count never exceeds the request count.
C34_ErrorsWithinRequests == metrics.error_count <= metrics.request_count


=============================================================================
